---- MODULE Spec2Model ----
(***************************************************************************)
(* A model of linkedin_scraper.py: the record store (load_existing_excel,  *)
(* append_and_save_excel), the post collector (scroll_and_collect_posts),  *)
(* the oracle client (OllamaClient.extract) and the orchestrator           *)
(* (run_scrape).                                                           *)
(*                                                                         *)
(* Python values are encoded as follows.  A str is the sequence of its     *)
(* characters (<<"a", "|">> is "a|", <<>> is "").  None is the one-element *)
(* sequence <<"#None">>, which no str equals because every element of a    *)
(* str is a single character.  An int n is <<"#int", n>>.                  *)
(***************************************************************************)
EXTENDS Integers, Sequences, FiniteSets, TLC

VARIABLES
    \* ---- record store (append_and_save_excel) ----
    file,           \* the file at the output path
    spc,            \* position inside append_and_save_excel
    caller,         \* who called append_and_save_excel
    new_rows,       \* argument new_rows: a sequence of PostRecord
    existing_rows,  \* local existing_rows
    combined,       \* local combined
    calls,          \* number of calls of append_and_save_excel begun
    prior,          \* history: the file when the current call began
    outcome,        \* history: how the last call ended
    prev_new,       \* history: new_rows of the last call that ended
    repeated,       \* history: this call follows a successful call with the same new_rows
    \* ---- post collector (scroll_and_collect_posts) ----
    max_posts,      \* argument max_posts
    collected,      \* local collected
    seen_hashes,    \* local seen_hashes
    last_height,    \* local last_height
    stagnant_scrolls, \* local stagnant_scrolls
    cpc,            \* position inside scroll_and_collect_posts
    articles,       \* what the article elements of the page yield, in DOM order
    art_i,          \* loop index i over the articles (from 1)
    log,            \* history: the result of the height probe of every scroll attempt
    \* ---- orchestrator (run_scrape) and oracle client (OllamaClient.extract) ----
    rpc,            \* position inside run_scrape
    headless,       \* argument headless
    has_creds,      \* `email and password`
    storage_exists, \* os.path.exists(storage_state_path)
    open,           \* the browsers and contexts that are open
    cur,            \* which launch the names `browser` and `context` refer to
    auth_result,    \* history: what ensure_logged_in returned
    pending,        \* how the with block of run_scrape is being left
    crash_cause,    \* history: the call whose exception left run_scrape
    exit_code,      \* the exit status of the process, once rpc = "exited"
    session_writes, \* history: calls of context.storage_state(path=...)
    search_navs,    \* history: navigations to the search results page
    oracle_calls,   \* history: requests sent to the oracle in this run
    idx,            \* loop index idx over results (from 1)
    attempt,        \* loop variable attempt of extract
    extraction,     \* local extraction
    parsed,         \* history: the object the last attempt of extract got
                    \* from json.loads for the current post (local parsed)
    used_fallback,  \* history: extraction came from the fallback heuristic
    post_calls,     \* history: the oracle calls made for the current post
    finals,         \* history: the final Extraction of every classified post
    kept,           \* local kept
    args_login,     \* args.login: the login-only mode was asked for
    success,        \* local success of run_login_only
    summary,        \* the summary line run_scrape printed on stdout
    state_write,    \* history: how the last write of the session state went
    auth_steps      \* history: the steps of the call of ensure_logged_in that
                    \* has just ended

storeVars == <<file, spc, caller, new_rows, existing_rows, combined, calls,
               prior, outcome, prev_new, repeated>>

collectVars == <<max_posts, collected, seen_hashes, last_height,
                 stagnant_scrolls, cpc, articles, art_i, log>>

runVars == <<rpc, headless, has_creds, storage_exists, open, cur, auth_result,
             pending, crash_cause, exit_code, session_writes, search_navs,
             oracle_calls, idx, attempt, extraction, parsed, used_fallback,
             post_calls, finals, kept, args_login, success, summary, state_write,
             auth_steps>>

vars == <<storeVars, collectVars, runVars>>

(***************************************************************************)
(* Python values                                                           *)
(***************************************************************************)
None == <<"#None">>

\* The value of the name `extraction` while it holds no Extraction object
\* (not yet bound, or extract returned None).
NoExtraction == [none |-> TRUE]

\* The value of the name `parsed` while json.loads has returned nothing for
\* the current post.
NoObject == [none |-> TRUE]

EmptyStr == <<>>

PyInt(n) == <<"#int", n>>

\* Python truthiness of an Optional[str] / cell value: None, "" and 0 are falsy.
Truthy(v) == v # None /\ v # EmptyStr /\ v # PyInt(0)

\* `v or ""`
OrEmpty(v) == IF Truthy(v) THEN v ELSE EmptyStr

\* ", ".join(xs)
RECURSIVE JoinComma(_)
JoinComma(xs) ==
    IF xs = <<>> THEN EmptyStr
    ELSE IF Len(xs) = 1 THEN xs[1]
    ELSE xs[1] \o <<",", " ">> \o JoinComma(Tail(xs))

(***************************************************************************)
(* Record store                                                            *)
(***************************************************************************)
EXPECTED_COLUMNS ==
    << "timestamp", "post_url", "poster_name", "poster_profile_url",
       "poster_linkedin_id", "role_title", "min_years_experience",
       "max_years_experience", "skills", "location", "job_type", "contact",
       "post_excerpt" >>

ColumnSet == {EXPECTED_COLUMNS[i] : i \in 1..Len(EXPECTED_COLUMNS)}

\* PostRecord.to_row
to_row(r) ==
    [ timestamp            |-> OrEmpty(r.timestamp_text),
      post_url             |-> OrEmpty(r.post_url),
      poster_name          |-> OrEmpty(r.poster_name),
      poster_profile_url   |-> OrEmpty(r.poster_profile_url),
      poster_linkedin_id   |-> OrEmpty(r.poster_linkedin_id),
      role_title           |-> OrEmpty(r.role_title),
      min_years_experience |-> r.min_years_experience,
      max_years_experience |-> r.max_years_experience,
      skills               |-> IF r.skills # <<>> THEN JoinComma(r.skills) ELSE EmptyStr,
      location             |-> OrEmpty(r.location),
      job_type             |-> OrEmpty(r.job_type),
      contact              |-> OrEmpty(r.contact),
      post_excerpt         |-> OrEmpty(r.post_excerpt) ]

\* make_key: f"{row.get('post_url') or ''}|{row.get('post_excerpt') or ''}"
make_key(row) == OrEmpty(row.post_url) \o <<"|">> \o OrEmpty(row.post_excerpt)

\* What a cell holds once written: openpyxl writes None and "" as an empty
\* cell, which reads back as None; every other value reads back unchanged.
CellWritten(v) == IF v = EmptyStr THEN None ELSE v

\* The file at the output path.  exists: os.path.exists; valid: load_workbook
\* can read it; header and rows: the sheet's first row and the rows below it.
AbsentFile == [exists |-> FALSE, valid |-> FALSE, header |-> <<>>, rows |-> <<>>]

TruncatedFile == [exists |-> TRUE, valid |-> FALSE, header |-> <<>>, rows |-> <<>>]

\* The last index of `col` in `header`, 0 when it is not a column of the sheet
\* (a dict built from the header keeps the last of two equal names).
LastIndex(header, col) ==
    LET hits == {i \in 1..Len(header) : header[i] = col}
    IN  IF hits = {} THEN 0 ELSE CHOOSE i \in hits : \A j \in hits : j <= i

\* One sheet row normalised to the expected columns (lines 448-450).
NormalizeRow(header, r) ==
    [col \in ColumnSet |->
        LET i == LastIndex(header, col)
        IN  IF i = 0 THEN None ELSE IF i <= Len(r) THEN r[i] ELSE None]

\* A mutant of lines 453-454: the rows read before the exception are
\* returned.
load_existing_excel_partial(f) ==
    IF ~f.exists THEN <<>>
    ELSE [k \in 1..Len(f.rows) |-> NormalizeRow(f.header, f.rows[k])]

\* load_existing_excel
load_existing_excel(f) ==
    IF ~f.exists THEN <<>>
    ELSE IF ~f.valid THEN <<>>
    ELSE [k \in 1..Len(f.rows) |-> NormalizeRow(f.header, f.rows[k])]

\* The dedup loop of append_and_save_excel (lines 467-475), from the state
\* (combined, seen) over the rows left.
RECURSIVE DedupFrom(_, _, _)
DedupFrom(rows, acc, seen) ==
    IF rows = <<>> THEN acc
    ELSE LET row == Head(rows)
             key == make_key(row)
         IN  IF key \in seen
             THEN DedupFrom(Tail(rows), acc, seen)
             ELSE DedupFrom(Tail(rows), Append(acc, row), seen \cup {key})

\* A mutant of the dedup loop: the key is never added to `seen`.
DedupNoSeen(rows) == rows

Reverse(rows) == [k \in 1..Len(rows) |-> rows[Len(rows) + 1 - k]]

\* A mutant of the dedup loop: of the rows with one key the last is kept.
DedupLastWins(rows) == Reverse(DedupFrom(Reverse(rows), <<>>, {}))

Dedup(rows) == DedupFrom(rows, <<>>, {})

\* incoming_rows
IncomingRows(recs) == [k \in 1..Len(recs) |-> to_row(recs[k])]

\* The sheet append_and_save_excel builds (lines 477-481) as it is stored.
SheetOf(rows) ==
    [ exists |-> TRUE,
      valid  |-> TRUE,
      header |-> EXPECTED_COLUMNS,
      rows   |-> [k \in 1..Len(rows) |->
                     [i \in 1..Len(EXPECTED_COLUMNS) |->
                         CellWritten(rows[k][EXPECTED_COLUMNS[i]])]] ]

(***************************************************************************)
(* The inputs of the record store's specification                          *)
(***************************************************************************)
\* A PostRecord with the given post_url, post_excerpt and role_title.
Rec(url, excerpt, role) ==
    [ timestamp_text       |-> None,
      post_url             |-> url,
      poster_name          |-> <<"n">>,
      poster_profile_url   |-> None,
      poster_linkedin_id   |-> None,
      role_title           |-> role,
      min_years_experience |-> PyInt(0),
      max_years_experience |-> PyInt(2),
      skills               |-> << <<"s">>, <<"q">> >>,
      location             |-> None,
      job_type             |-> None,
      contact              |-> None,
      post_excerpt         |-> excerpt ]

\* The PostRecords the store is called with.  RecA and RecA2 have the same
\* identity key and different role titles; RecNoUrl has no post_url; RecBarL
\* and RecBarR differ in url and in excerpt around the separator.
RecA == Rec(<<"u">>, <<"e">>, <<"A">>)

RecA2 == Rec(<<"u">>, <<"e">>, None)

RecNoUrl == Rec(None, <<"e">>, <<"A">>)

RecBarL == Rec(<<"u", "|">>, <<"e">>, <<"A">>)

RecBarR == Rec(<<"u">>, <<"|", "e">>, <<"B">>)

\* The new_rows a call is given.
NewBatches ==
    { <<>>,
      <<RecA>>,
      <<RecA2, RecNoUrl>>,
      <<RecNoUrl, RecA, RecA2>>,
      <<RecBarL, RecBarR>>,
      <<RecBarR, RecA, RecBarL>> }

\* The number of calls of append_and_save_excel in one behaviour.
MaxCalls == 3

\* A sheet written by another tool: a shorter header in another order, a row
\* shorter than the header, and two rows with the same identity key.
LegacyFile ==
    [ exists |-> TRUE,
      valid  |-> TRUE,
      header |-> << "post_excerpt", "post_url", "role_title" >>,
      rows   |-> << << <<"e">>, <<"u">>, <<"B">> >>,
                    << <<"e">>, <<"u">> >>,
                    << <<"x">> >> >> ]

\* A file whose first row can be read before load_workbook or iter_rows
\* raises.
DamagedFile ==
    [ exists |-> TRUE,
      valid  |-> FALSE,
      header |-> << "post_excerpt", "post_url", "role_title" >>,
      rows   |-> << << <<"e">>, <<"u">>, <<"B">> >> >> ]

\* The files the output path may hold before the first call.
InitialFiles ==
    { AbsentFile, TruncatedFile, DamagedFile, LegacyFile,
      SheetOf(<<>>),
      SheetOf(IncomingRows(<<RecA2>>)) }

(***************************************************************************)
(* append_and_save_excel, step by step                                     *)
(***************************************************************************)
StoreIdle ==
    /\ spc = "idle"
    /\ caller = "none"
    /\ new_rows = <<>>
    /\ existing_rows = <<>>
    /\ combined = <<>>

StoreInit ==
    /\ file \in InitialFiles
    /\ StoreIdle
    /\ calls = 0
    /\ prior = file
    /\ outcome = "none"
    /\ prev_new = <<>>
    /\ repeated = FALSE

\* A direct call of append_and_save_excel(path, recs).
StoreCall ==
    /\ spc = "idle"
    /\ calls < MaxCalls
    /\ \E recs \in NewBatches :
          /\ new_rows' = recs
          /\ repeated' = (outcome = "ok" /\ recs = prev_new)
    /\ caller' = "direct"
    /\ spc' = "load"
    /\ calls' = calls + 1
    /\ prior' = file
    /\ UNCHANGED <<file, existing_rows, combined, outcome, prev_new>>

\* Line 458: existing_rows = load_existing_excel(path).
LoadExisting ==
    /\ spc = "load"
    /\ existing_rows' = load_existing_excel(file)
    /\ spc' = "merge"
    /\ UNCHANGED <<file, caller, new_rows, combined, calls, prior, outcome,
                   prev_new, repeated>>

\* Lines 459-475: incoming rows, then the dedup loop over existing + incoming.
Combine ==
    /\ spc = "merge"
    /\ combined' = Dedup(existing_rows \o IncomingRows(new_rows))
    /\ spc' = "save"
    /\ UNCHANGED <<file, caller, new_rows, existing_rows, calls, prior, outcome,
                   prev_new, repeated>>

\* How append_and_save_excel ends: it returns, or wb.save raises.
StoreEnds(how) ==
    /\ spc' = IF caller = "direct" THEN "idle" ELSE "returned"
    /\ outcome' = how
    /\ prev_new' = new_rows
    /\ new_rows' = IF caller = "direct" THEN <<>> ELSE new_rows
    /\ existing_rows' = <<>>
    /\ combined' = <<>>
    /\ caller' = IF caller = "direct" THEN "none" ELSE caller

\* Line 482, wb.save(path): the file cannot be opened for writing (a missing
\* directory, no permission); the exception leaves the path untouched.
SaveRefused ==
    /\ spc = "save"
    /\ StoreEnds("failed")
    /\ UNCHANGED <<file, calls, prior, repeated>>

\* Line 482, wb.save(path): the archive is opened at the path itself for
\* writing, which truncates what was there.
SaveOpen ==
    /\ spc = "save"
    /\ file' = TruncatedFile
    /\ spc' = "writing"
    /\ UNCHANGED <<caller, new_rows, existing_rows, combined, calls, prior,
                   outcome, prev_new, repeated>>

\* Line 482, wb.save(path): the sheet is written and the archive closed.
SaveClose ==
    /\ spc = "writing"
    /\ file' = SheetOf(combined)
    /\ StoreEnds("ok")
    /\ UNCHANGED <<calls, prior, repeated>>

\* Line 482, wb.save(path): the write fails or is interrupted after the
\* archive was opened (a full disk, an I/O error); the exception propagates.
SaveInterrupted ==
    /\ spc = "writing"
    /\ StoreEnds("failed")
    /\ UNCHANGED <<file, calls, prior, repeated>>

\* The collector is not running.
CollectIdle ==
    /\ max_posts = 0
    /\ collected = <<>>
    /\ seen_hashes = {}
    /\ last_height = 0
    /\ stagnant_scrolls = 0
    /\ cpc = "idle"
    /\ articles = <<>>
    /\ art_i = 0
    /\ log = <<>>

\* run_scrape is not running.
RunIdle ==
    /\ rpc = "idle"
    /\ headless = TRUE
    /\ has_creds = FALSE
    /\ storage_exists = FALSE
    /\ open = {}
    /\ cur = 1
    /\ auth_result = "none"
    /\ pending = "none"
    /\ crash_cause = "none"
    /\ exit_code = 0
    /\ session_writes = 0
    /\ search_navs = 0
    /\ oracle_calls = 0
    /\ idx = 0
    /\ attempt = 0
    /\ extraction = NoExtraction
    /\ parsed = NoObject
    /\ used_fallback = FALSE
    /\ post_calls = <<>>
    /\ finals = <<>>
    /\ kept = <<>>
    /\ args_login = FALSE
    /\ success = FALSE
    /\ summary = "none"
    /\ state_write = "none"
    /\ auth_steps = <<>>

StoreNext ==
    \/ StoreCall /\ UNCHANGED <<collectVars, runVars>>
    \/ LoadExisting /\ UNCHANGED <<collectVars, runVars>>
    \/ Combine /\ UNCHANGED <<collectVars, runVars>>
    \/ SaveRefused /\ UNCHANGED <<collectVars, runVars>>
    \/ SaveOpen /\ UNCHANGED <<collectVars, runVars>>
    \/ SaveClose /\ UNCHANGED <<collectVars, runVars>>
    \/ SaveInterrupted /\ UNCHANGED <<collectVars, runVars>>

StoreSpecInit == StoreInit /\ CollectIdle /\ RunIdle

StoreSpec == StoreSpecInit /\ [][StoreNext]_vars

(***************************************************************************)
(* Claims about the record store                                           *)
(***************************************************************************)
\* The identity keys of the rows a file holds, in order, as the next run
\* would compute them.
FileKeys(f) ==
    LET rows == load_existing_excel(f)
    IN  [k \in 1..Len(rows) |-> make_key(rows[k])]

NoDuplicateKeys(f) ==
    \A i, j \in 1..Len(FileKeys(f)) : i # j => FileKeys(f)[i] # FileKeys(f)[j]

\* A call of append_and_save_excel has just returned normally.
StoreReturnedOk == spc = "idle" /\ outcome = "ok"

\* C1: a successful call that follows a successful call with the same new
\* records leaves the file exactly as that call left it (same header, same
\* rows, same order), and after every successful call no two rows of the
\* file have the same identity key.
C1_MergeIdempotent ==
    /\ (StoreReturnedOk /\ repeated) => file = prior
    /\ StoreReturnedOk => NoDuplicateKeys(file)

\* A second successful call with the same three new records, two of which
\* share a key, has returned and the table holds at least two rows.
C1_Witness ==
    /\ StoreReturnedOk
    /\ repeated
    /\ prev_new = <<RecNoUrl, RecA, RecA2>>
    /\ Len(file.rows) >= 2

\* C2: however a call of append_and_save_excel ends, the file is either the
\* complete new deduplicated table or exactly the file from before the call.
C2_AllOrNothing ==
    (spc = "idle" /\ outcome # "none") =>
        \/ file = prior
        \/ /\ outcome = "ok"
           /\ file = SheetOf(Dedup(load_existing_excel(prior) \o IncomingRows(prev_new)))

(***************************************************************************)
(* Post collector                                                          *)
(***************************************************************************)
\* The dict extract_post_fields returns (lines 345-351).
RawPost(text, name, profile, url, ts) ==
    [ post_text          |-> text,
      poster_name        |-> name,
      poster_profile_url |-> profile,
      post_url           |-> url,
      timestamp_text     |-> ts ]

\* json.dumps(data, sort_keys=True): the items in the order of their keys.
json_dumps_sorted(data) ==
    << <<"post_text", data.post_text>>,
       <<"post_url", data.post_url>>,
       <<"poster_name", data.poster_name>>,
       <<"poster_profile_url", data.poster_profile_url>>,
       <<"timestamp_text", data.timestamp_text>> >>

\* text_hash: SHA-1 of the text, taken as collision-free (equal digests only
\* for equal texts).
text_hash(text) == <<"sha1", text>>

\* Lines 374-375: h = text_hash(json.dumps(data, sort_keys=True)).
Fingerprint(data) == text_hash(json_dumps_sorted(data))

\* A mutant of line 376: the membership test never finds the hash.
NeverSeen(h, seen) == FALSE

\* Line 376: h in seen_hashes.
AlreadySeen(h, seen) == h \in seen

\* The stagnation threshold of the while condition (line 361).
StagnationLimit == 5

\* A mutant of line 361: one stagnant attempt more is allowed.
LoopGuardOffByOne(n, maxp, stagnant) == n < maxp /\ stagnant <= StagnationLimit

\* Line 361: len(collected) < max_posts and stagnant_scrolls < 5.
LoopGuard(n, maxp, stagnant) == n < maxp /\ stagnant < StagnationLimit

\* A mutant of lines 388-392: only a larger height resets the count.
ProbeUpdateGrowthOnly(stagnant, last, new_height) ==
    IF new_height <= last THEN <<stagnant + 1, last>> ELSE <<0, new_height>>

\* Lines 388-392: <<stagnant_scrolls, last_height>> after a probe that
\* returned new_height.
ProbeUpdate(stagnant, last, new_height) ==
    IF new_height = last THEN <<stagnant + 1, last>> ELSE <<0, new_height>>

\* The texts of the posts of the feed.
TextJunior == <<"J", "u", "n", "i", "o", "r", " ", "D", "a", "t", "a", " ", "A", "n", "a", "l", "y", "s", "t", ",", " ", "0", "-", "2", " ", "y", "r", "s">>

TextSenior == <<"S", "e", "n", "i", "o", "r", " ", "D", "a", "t", "a", " ", "S", "c", "i", "e", "n", "t", "i", "s", "t", " ", "5", "+", " ", "y", "e", "a", "r", "s">>

UrlPost1 == <<"/", "p", "/", "1">>

UrlPost2 == <<"/", "p", "/", "2">>

\* What extract_post_fields yields for the article elements of the feed: a
\* fragment with every field null, two fragments that differ only in the
\* timestamp, and a third post.
FragNull == RawPost(None, None, None, None, None)

FragJunior == RawPost(TextJunior, <<"n">>, None, UrlPost1, <<"1", "h">>)

FragJuniorLater == RawPost(TextJunior, <<"n">>, None, UrlPost1, <<"2", "h">>)

FragSenior == RawPost(TextSenior, None, None, UrlPost2, None)

\* The article lists one enumeration of the page may find: none, one, two
\* nodes with identical fields, and longer lists with repeats.
DomSnapshots ==
    { <<>>,
      <<FragJunior>>,
      <<FragJunior, FragJunior>>,
      <<FragNull, FragJunior, FragSenior>>,
      <<FragJuniorLater, FragNull, FragJuniorLater, FragSenior>> }

\* document.body.scrollHeight as the probe may return it.
Heights == {0, 900}

\* The probe raised (line 393).
ProbeError == -1

\* The largest max_posts the collector is called with.
MaxPostsArg == 3

\* The number of scroll attempts after which the model stops scrolling.
MaxScrolls == 7

CollectInit ==
    /\ max_posts \in 0..MaxPostsArg
    /\ collected = <<>>
    /\ seen_hashes = {}
    /\ last_height = 0
    /\ stagnant_scrolls = 0
    /\ cpc = "head"
    /\ articles = <<>>
    /\ art_i = 0
    /\ log = <<>>

\* Lines 361-368: the while condition holds; wait for an article, then
\* enumerate the article elements.
EnterIteration ==
    /\ cpc = "head"
    /\ LoopGuard(Len(collected), max_posts, stagnant_scrolls)
    /\ Len(log) < MaxScrolls
    /\ \E snap \in DomSnapshots : articles' = snap
    /\ art_i' = 1
    /\ cpc' = "articles"
    /\ UNCHANGED <<max_posts, collected, seen_hashes, last_height,
                   stagnant_scrolls, log>>

\* Lines 369-379: one pass of the for loop over the articles.
ProcessArticle ==
    /\ cpc = "articles"
    /\ art_i <= Len(articles)
    /\ Len(collected) < max_posts
    /\ LET data == articles[art_i]
           h    == Fingerprint(data)
       IN  IF AlreadySeen(h, seen_hashes)
           THEN UNCHANGED <<seen_hashes, collected>>
           ELSE /\ seen_hashes' = seen_hashes \cup {h}
                /\ collected' = Append(collected, data)
    /\ art_i' = art_i + 1
    /\ UNCHANGED <<max_posts, last_height, stagnant_scrolls, cpc, articles, log>>

\* Lines 369-371: the for loop ends, by exhaustion or by the break.
LeaveArticles ==
    /\ cpc = "articles"
    /\ art_i > Len(articles) \/ Len(collected) >= max_posts
    /\ cpc' = "scroll"
    /\ articles' = <<>>
    /\ art_i' = 0
    /\ UNCHANGED <<max_posts, collected, seen_hashes, last_height,
                   stagnant_scrolls, log>>

\* Lines 381-392: scroll, pause, and a probe that returns a height.
ScrollProbe ==
    /\ cpc = "scroll"
    /\ \E new_height \in Heights :
          /\ stagnant_scrolls' = ProbeUpdate(stagnant_scrolls, last_height, new_height)[1]
          /\ last_height' = ProbeUpdate(stagnant_scrolls, last_height, new_height)[2]
          /\ log' = Append(log, new_height)
    /\ cpc' = "head"
    /\ UNCHANGED <<max_posts, collected, seen_hashes, articles, art_i>>

\* A mutant of lines 393-394: a probe that raises counts as a stagnant
\* attempt.
ScrollProbeFailsCounted ==
    /\ cpc = "scroll"
    /\ log' = Append(log, ProbeError)
    /\ stagnant_scrolls' = stagnant_scrolls + 1
    /\ cpc' = "head"
    /\ UNCHANGED <<max_posts, collected, seen_hashes, last_height, articles,
                   art_i>>

\* Lines 381-394: scroll, pause, and a probe that raises.
ScrollProbeFails ==
    /\ cpc = "scroll"
    /\ log' = Append(log, ProbeError)
    /\ cpc' = "head"
    /\ UNCHANGED <<max_posts, collected, seen_hashes, last_height,
                   stagnant_scrolls, articles, art_i>>

\* Lines 361 and 396: the while condition fails; return collected.
ReturnCollected ==
    /\ cpc = "head"
    /\ ~LoopGuard(Len(collected), max_posts, stagnant_scrolls)
    /\ cpc' = "done"
    /\ UNCHANGED <<max_posts, collected, seen_hashes, last_height,
                   stagnant_scrolls, articles, art_i, log>>

CollectNext ==
    \/ EnterIteration /\ UNCHANGED <<storeVars, runVars>>
    \/ ProcessArticle /\ UNCHANGED <<storeVars, runVars>>
    \/ LeaveArticles /\ UNCHANGED <<storeVars, runVars>>
    \/ ScrollProbe /\ UNCHANGED <<storeVars, runVars>>
    \/ ScrollProbeFails /\ UNCHANGED <<storeVars, runVars>>
    \/ ReturnCollected /\ UNCHANGED <<storeVars, runVars>>

StoreUnused ==
    /\ file = AbsentFile
    /\ StoreIdle
    /\ calls = 0
    /\ prior = AbsentFile
    /\ outcome = "none"
    /\ prev_new = <<>>
    /\ repeated = FALSE

CollectSpecInit == CollectInit /\ StoreUnused /\ RunIdle

CollectSpec == CollectSpecInit /\ [][CollectNext]_vars

(***************************************************************************)
(* Claims about the post collector                                         *)
(***************************************************************************)
\* The heights measured so far: the probes that returned, in order.
IsHeight(h) == h # ProbeError

Measured(l) == SelectSeq(l, IsHeight)

\* The height the k-th measurement is compared with: the one measured
\* before it, and 0 before the first.
PreviousHeight(m, k) == IF k = 1 THEN 0 ELSE m[k - 1]

\* The number of measurements at the end of m that each found the height
\* unchanged.
TrailingUnchanged(m) ==
    LET Run(j) == \A k \in (Len(m) - j + 1)..Len(m) : m[k] = PreviousHeight(m, k)
        runs   == {j \in 0..Len(m) : Run(j)}
    IN  CHOOSE j \in runs : \A r \in runs : r <= j

\* Every probe so far returned the height the first one returned.
SteadyFeed ==
    \A i \in 1..Len(log) : IsHeight(log[i]) /\ log[i] = log[1]

\* The scroll attempts so far that observed no height change.
StagnantAttempts ==
    Cardinality({i \in 1..Len(log) :
                    IsHeight(log[i]) /\ log[i] = PreviousHeight(log, i)})

\* C5: on a feed whose height never changes after the first scroll iteration
\* and which yields fewer than max_posts fragments, the collector never makes
\* a sixth stagnant scroll attempt and returns only after exactly five.
C5_StopsAfterFiveStagnant ==
    (SteadyFeed /\ Len(collected) < max_posts) =>
        /\ StagnantAttempts <= 5
        /\ cpc = "done" => StagnantAttempts = 5

\* The collector has returned one fragment of three wanted after six scroll
\* attempts on a feed whose height went to 900 and stayed there.
C5_Witness ==
    /\ cpc = "done"
    /\ log = <<900, 900, 900, 900, 900, 900>>
    /\ Len(collected) = 1
    /\ max_posts = 3

C7_CollectedDistinctAndBounded ==
    /\ \A i, j \in 1..Len(collected) : i # j => collected[i] # collected[j]
    /\ Len(collected) <= max_posts

\* In a later scroll iteration two article nodes yielding the fields of a
\* fragment collected before have both been passed over, with room left.
C7_Witness ==
    /\ cpc = "articles"
    /\ Len(log) >= 1
    /\ articles = <<FragJunior, FragJunior>>
    /\ art_i = 3
    /\ collected = <<FragJunior>>
    /\ max_posts >= 2

(***************************************************************************)
(* Strings                                                                 *)
(***************************************************************************)
\* The lower-case letter of every upper-case letter.
LowerOf ==
    ("A" :> "a") @@ ("B" :> "b") @@ ("C" :> "c") @@ ("D" :> "d") @@ ("E"
    :> "e") @@ ("F" :> "f") @@ ("G" :> "g") @@ ("H" :> "h") @@ ("I" :>
    "i") @@ ("J" :> "j") @@ ("K" :> "k") @@ ("L" :> "l") @@ ("M" :> "m")
    @@ ("N" :> "n") @@ ("O" :> "o") @@ ("P" :> "p") @@ ("Q" :> "q") @@
    ("R" :> "r") @@ ("S" :> "s") @@ ("T" :> "t") @@ ("U" :> "u") @@ ("V"
    :> "v") @@ ("W" :> "w") @@ ("X" :> "x") @@ ("Y" :> "y") @@ ("Z" :>
    "z")

\* str.lower()
Lower(t) == [i \in 1..Len(t) |-> IF t[i] \in DOMAIN LowerOf THEN LowerOf[t[i]] ELSE t[i]]

\* m in t, for strings
Contains(t, m) ==
    \E i \in 1..(Len(t) - Len(m) + 1) : SubSeq(t, i, i + Len(m) - 1) = m

\* A mutant of line 554: no text counts as blank.
NeverBlank(t) == TRUE

\* str.strip() leaves something: the text has a character that is no blank
\* (normalize_whitespace has made every run of whitespace one space).
StripNonEmpty(t) == \E i \in 1..Len(t) : t[i] # " "

\* The pieces of t between the occurrences of sep: t.split(sep).
RECURSIVE SplitOn(_, _)
SplitOn(t, sep) ==
    LET hits == {i \in 1..Len(t) : t[i] = sep}
    IN  IF hits = {} THEN <<t>>
        ELSE LET i == CHOOSE h \in hits : \A g \in hits : h <= g
             IN  <<SubSeq(t, 1, i - 1)>> \o SplitOn(SubSeq(t, i + 1, Len(t)), sep)

\* t up to the first of the characters in `stops`.
UpTo(t, stops) ==
    LET hits == {i \in 1..Len(t) : t[i] \in stops}
    IN  IF hits = {} THEN t
        ELSE SubSeq(t, 1, (CHOOSE h \in hits : \A g \in hits : h <= g) - 1)

(***************************************************************************)
(* extract_profile_id                                                      *)
(***************************************************************************)
Letters ==
    {"a", "b", "c", "d", "e", "f", "g", "h", "i", "j", "k", "l", "m", "n",
     "o", "p", "q", "r", "s", "t", "u", "v", "w", "x", "y", "z"}

SchemeChars ==
    Letters \cup {"0", "1", "2", "3", "4", "5", "6", "7", "8", "9", "+", "-", "."}

\* The schemes whose last path segment may carry parameters after a ";"
\* (urllib.parse.uses_params).
UsesParams ==
    { EmptyStr, <<"f", "t", "p">>,
      <<"h", "d", "l">>,
      <<"p", "r", "o", "s", "p", "e", "r", "o">>,
      <<"h", "t", "t", "p">>,
      <<"i", "m", "a", "p">>,
      <<"h", "t", "t", "p", "s">>,
      <<"s", "h", "t", "t", "p">>,
      <<"r", "t", "s", "p">>,
      <<"r", "t", "s", "p", "u">>,
      <<"s", "i", "p">>,
      <<"s", "i", "p", "s">>,
      <<"m", "m", "s">>,
      <<"s", "f", "t", "p">>,
      <<"t", "e", "l">> }

\* F applied to the value of v (v is evaluated once, whatever F does
\* with it).
Bind(v, F(_)) == CHOOSE r \in {F(x) : x \in {v}} : TRUE

\* The least and the greatest of a non-empty set of positions.
Least(S) == CHOOSE h \in S : \A g \in S : h <= g

Greatest(S) == CHOOSE h \in S : \A g \in S : g <= h

\* urlsplit, the scheme: what precedes the first ":" when it starts with a
\* letter and holds only scheme characters; `name` is the scheme in lower
\* case ("" without one) and `rest` what follows it.
SplitScheme(url) ==
    Bind(Lower(url), LAMBDA low :
        LET colons == {i \in 1..Len(low) : low[i] = ":"}
            c      == IF colons = {} THEN 0 ELSE Least(colons)
            scheme == /\ c > 1
                      /\ low[1] \in Letters
                      /\ \A k \in 1..(c - 1) : low[k] \in SchemeChars
        IN  IF scheme
            THEN [name |-> SubSeq(low, 1, c - 1), rest |-> SubSeq(url, c + 1, Len(url))]
            ELSE [name |-> EmptyStr, rest |-> url])

\* urlsplit, the netloc: what follows a leading "//" up to the next "/", "?"
\* or "#"; `tail` is what follows the netloc.
SplitNetloc(rest) ==
    IF Len(rest) >= 2 /\ rest[1] = "/" /\ rest[2] = "/"
    THEN Bind(UpTo(SubSeq(rest, 3, Len(rest)), {"/", "?", "#"}), LAMBDA host :
            [netloc |-> host, tail |-> SubSeq(rest, 3 + Len(host), Len(rest))])
    ELSE [netloc |-> EmptyStr, tail |-> rest]

\* The path: the tail up to the first "?" or "#" and, for a scheme that uses
\* parameters, up to the first ";" of its last segment.
PathOf(name, tail) ==
    Bind(UpTo(tail, {"?", "#"}), LAMBDA whole :
        LET bars  == {i \in 1..Len(whole) : whole[i] = "/"}
            last  == IF bars = {} THEN 0 ELSE Greatest(bars)
            semis == {i \in 1..Len(whole) : whole[i] = ";" /\ i > last}
        IN  IF name \in UsesParams /\ semis # {}
            THEN SubSeq(whole, 1, Least(semis) - 1)
            ELSE whole)

\* urlparse(url): the netloc and the path.
UrlSplit(url) ==
    Bind(SplitScheme(url), LAMBDA s :
        Bind(SplitNetloc(s.rest), LAMBDA n :
            [netloc |-> n.netloc, path |-> PathOf(s.name, n.tail)]))

\* urlparse raises ValueError when the netloc holds one of "[" and "]"
\* without the other.
UrlMalformed(url) ==
    LET netloc == UrlSplit(url).netloc
        has(ch) == \E i \in 1..Len(netloc) : netloc[i] = ch
    IN  has("[") # has("]")

\* A mutant of lines 115-117: the namespace markers are not skipped.
extract_profile_id_first(profile_url) ==
    IF ~Truthy(profile_url) THEN None
    ELSE IF UrlMalformed(profile_url) THEN None
    ELSE LET segments == SelectSeq(SplitOn(UrlSplit(profile_url).path, "/"),
                                   LAMBDA seg : seg # EmptyStr)
         IN  IF segments = <<>> THEN None ELSE segments[1]

\* extract_profile_id
extract_profile_id(profile_url) ==
    IF ~Truthy(profile_url) THEN None
    ELSE IF UrlMalformed(profile_url) THEN None
    ELSE LET segments == SelectSeq(SplitOn(UrlSplit(profile_url).path, "/"),
                                   LAMBDA seg : seg # EmptyStr)
         IN  IF segments = <<>> THEN None
             ELSE IF segments[1] \in {<<"i", "n">>, <<"c", "o", "m", "p", "a", "n", "y">>}
                     /\ Len(segments) >= 2
                  THEN segments[2]
                  ELSE segments[1]

(***************************************************************************)
(* Extraction, the fallback heuristic and build_post_record                *)
(***************************************************************************)
\* Extraction (lines 22-30)
Extraction(role, min_years, max_years, skills, location, job_type, contact, verdict) ==
    [ role_title           |-> role,
      min_years_experience |-> min_years,
      max_years_experience |-> max_years,
      skills               |-> skills,
      location             |-> location,
      job_type             |-> job_type,
      contact              |-> contact,
      verdict_relevant     |-> verdict ]

DataAnalystLabel == <<"D", "a", "t", "a", " ", "A", "n", "a", "l", "y", "s", "t">>

\* Line 561: the phrases that signal the role.
RoleMarkers == { <<"d", "a", "t", "a", " ", "a", "n", "a", "l", "y", "s", "t">>,
                 <<"j", "u", "n", "i", "o", "r", " ", "d", "a", "t", "a", " ", "a", "n", "a", "l", "y", "s", "t">> }

\* Line 562: fresher_markers
fresher_markers ==
    { <<"0", "-", "2">>,
      <<"0", " ", "t", "o", " ", "2">>,
      <<"f", "r", "e", "s", "h", "e", "r", "s">>,
      <<"f", "r", "e", "s", "h", "e", "r">>,
      <<"e", "n", "t", "r", "y", " ", "l", "e", "v", "e", "l">>,
      <<"j", "u", "n", "i", "o", "r">> }

\* A mutant of lines 560-574: the text is not lower-cased.
FallbackCaseSensitive(text) ==
    LET t        == text
        has_role == \E m \in RoleMarkers : Contains(t, m)
        has_exp  == \E m \in fresher_markers : Contains(t, m)
    IN  Extraction(IF has_role THEN DataAnalystLabel ELSE None,
                   IF has_exp THEN PyInt(0) ELSE None,
                   IF has_exp THEN PyInt(2) ELSE None,
                   <<>>, None, None, None, has_role /\ has_exp)

\* Lines 560-574: the fallback heuristic.
Fallback(text) ==
    LET t        == Lower(text)
        has_role == \E m \in RoleMarkers : Contains(t, m)
        has_exp  == \E m \in fresher_markers : Contains(t, m)
    IN  Extraction(IF has_role THEN DataAnalystLabel ELSE None,
                   IF has_exp THEN PyInt(0) ELSE None,
                   IF has_exp THEN PyInt(2) ELSE None,
                   <<>>, None, None, None, has_role /\ has_exp)

\* The longest excerpt and the text kept before the ellipsis (lines 494-495).
ExcerptLimit == 500

\* A mutant of line 495: the whole limit is kept before the marker.
ExcerptKeptWhole == ExcerptLimit

ExcerptKept == 497

\* build_post_record
build_post_record(raw, ext) ==
    LET text    == raw.post_text
        excerpt == IF Truthy(text) /\ Len(text) > ExcerptLimit
                   THEN SubSeq(text, 1, ExcerptKept) \o <<".", ".", ".">>
                   ELSE text
    IN  [ timestamp_text       |-> raw.timestamp_text,
          post_url             |-> raw.post_url,
          poster_name          |-> raw.poster_name,
          poster_profile_url   |-> raw.poster_profile_url,
          poster_linkedin_id   |-> extract_profile_id(raw.poster_profile_url),
          role_title           |-> ext.role_title,
          min_years_experience |-> ext.min_years_experience,
          max_years_experience |-> ext.max_years_experience,
          skills               |-> ext.skills,
          location             |-> ext.location,
          job_type             |-> ext.job_type,
          contact              |-> ext.contact,
          post_excerpt         |-> excerpt ]

(***************************************************************************)
(* The inputs of a scrape run                                              *)
(***************************************************************************)
TextShout == <<"J", "U", "N", "I", "O", "R", " ", "D", "A", "T", "A", " ", "A", "N", "A", "L", "Y", "S", "T", ",", " ", "0", "-", "2", " ", "Y", "R", "S">>

TextRoleOnly == <<"D", "a", "t", "a", " ", "A", "n", "a", "l", "y", "s", "t", ",", " ", "5", " ", "y", "e", "a", "r", "s">>

TextExpOnly == <<"F", "r", "e", "s", "h", "e", "r", "s", " ", "w", "e", "l", "c", "o", "m", "e">>

ProfileJane == <<"h", "t", "t", "p", "s", ":", "/", "/", "l", ".", "c", "o", "m", "/", "i", "n", "/", "j", "a", "n", "e", "-", "d", "o", "e", "/">>

FragShout == RawPost(TextShout, None, ProfileJane, None, None)

FragRoleOnly == RawPost(TextRoleOnly, <<"n">>, None, UrlPost2, None)

FragExpOnly == RawPost(TextExpOnly, None, None, None, <<"1", "h">>)

\* What search_posts may return: lists scroll_and_collect_posts can build
\* (no fragment twice), of at most three fragments.
FeedResults ==
    { <<>>,
      <<FragNull>>,
      <<FragJunior, FragSenior>>,
      <<FragShout, FragNull, FragJunior>>,
      <<FragRoleOnly, FragExpOnly, FragJuniorLater>> }

\* The results search_posts may return when called with max_posts.
CollectResults(maxp) == {r \in FeedResults : Len(r) <= maxp}

\* The objects a well-formed oracle response parses to.
OracleRelevant ==
    Extraction(DataAnalystLabel, PyInt(0), PyInt(1), << <<"s">>, <<"q">> >>,
               None, None, None, TRUE)

OracleIrrelevant ==
    Extraction(None, None, None, <<>>, None, None, None, FALSE)

\* A JSON value as json.loads returns it, tagged with its type; JAbsent
\* stands for a key the object does not have.
JValue(type, str, int, bool, list) ==
    [t |-> type, s |-> str, n |-> int, b |-> bool, l |-> list]

JAbsent == JValue("absent", <<>>, 0, FALSE, <<>>)

JNull == JValue("null", <<>>, 0, FALSE, <<>>)

JStr(x) == JValue("str", x, 0, FALSE, <<>>)

JInt(k) == JValue("int", <<>>, k, FALSE, <<>>)

JBool(v) == JValue("bool", <<>>, 0, v, <<>>)

\* A JSON list of strings.
JList(xs) == JValue("list", <<>>, 0, FALSE, xs)

\* str.strip() of a text whose whitespace is blanks.
Strip(t) ==
    LET inked == {i \in 1..Len(t) : t[i] # " "}
    IN  IF inked = {} THEN <<>> ELSE SubSeq(t, Least(inked), Greatest(inked))

\* [x.strip() for x in xs if x.strip()]
StripAll(xs) ==
    SelectSeq([i \in 1..Len(xs) |-> Strip(xs[i])], LAMBDA x : x # <<>>)

\* Extraction.ensure_list (lines 32-42), the validator that runs on the value
\* given for skills before the field is checked: None gives [], a list its
\* stripped non-empty items, a str its comma-separated pieces, and a value
\* of any other type gives [].
ensure_list(v) ==
    IF v.t = "null" THEN <<>>
    ELSE IF v.t = "list" THEN StripAll(v.l)
    ELSE IF v.t = "str" THEN StripAll(SplitOn(v.s, ","))
    ELSE <<>>

\* Optional[str] = None (lines 23, 27-29): an absent key takes the default,
\* null and a str are taken, another type is refused.
StrFieldOk(v) == v.t \in {"absent", "null", "str"}

StrField(v) == IF v.t = "str" THEN v.s ELSE None

DecimalDigits == {"0", "1", "2", "3", "4", "5", "6", "7", "8", "9"}

DigitValue ==
    ("0" :> 0) @@ ("1" :> 1) @@ ("2" :> 2) @@ ("3" :> 3) @@ ("4" :> 4) @@
    ("5" :> 5) @@ ("6" :> 6) @@ ("7" :> 7) @@ ("8" :> 8) @@ ("9" :> 9)

RECURSIVE DecimalOf(_)
DecimalOf(t) ==
    IF t = <<>> THEN 0
    ELSE DecimalOf(SubSeq(t, 1, Len(t) - 1)) * 10 + DigitValue[t[Len(t)]]

\* Optional[int] = None (lines 24-25): an absent key takes the default, null
\* and an int are taken, a bool counts as 0 or 1, a str of decimal digits is
\* converted, anything else is refused.
IntFieldOk(v) ==
    \/ v.t \in {"absent", "null", "int", "bool"}
    \/ v.t = "str" /\ v.s # <<>> /\ \A i \in 1..Len(v.s) : v.s[i] \in DecimalDigits

IntField(v) ==
    IF v.t = "int" THEN PyInt(v.n)
    ELSE IF v.t = "bool" THEN PyInt(IF v.b THEN 1 ELSE 0)
    ELSE IF v.t = "str" THEN PyInt(DecimalOf(v.s))
    ELSE None

BoolWordsTrue ==
    { <<"1">>, <<"o", "n">>, <<"t">>, <<"t", "r", "u", "e">>, <<"y">>,
      <<"y", "e", "s">> }

BoolWordsFalse ==
    { <<"0">>, <<"o", "f", "f">>, <<"f">>, <<"f", "a", "l", "s", "e">>, <<"n">>,
      <<"n", "o">> }

\* bool, without default (line 30): the key is required; a bool is taken,
\* 0, 1 and the words for true and false are converted, anything else is
\* refused.
BoolFieldOk(v) ==
    \/ v.t = "bool"
    \/ v.t = "int" /\ v.n \in {0, 1}
    \/ v.t = "str" /\ Lower(v.s) \in BoolWordsTrue \cup BoolWordsFalse

BoolField(v) ==
    IF v.t = "bool" THEN v.b
    ELSE IF v.t = "int" THEN v.n = 1
    ELSE Lower(v.s) \in BoolWordsTrue

\* What Extraction(**parsed) raises when a field is refused.
ValidationError == [error |-> "ValidationError"]

\* Extraction(**parsed), line 181, for the class of lines 22-42: every field
\* is checked against its annotation, skills after ensure_list has replaced
\* the value given for it.  job_type is an Optional[str]: the class names no
\* set of job types.
Validate(obj) ==
    IF /\ StrFieldOk(obj.role_title)
       /\ IntFieldOk(obj.min_years_experience)
       /\ IntFieldOk(obj.max_years_experience)
       /\ StrFieldOk(obj.location)
       /\ StrFieldOk(obj.job_type)
       /\ StrFieldOk(obj.contact)
       /\ BoolFieldOk(obj.verdict_relevant)
    THEN Extraction(StrField(obj.role_title),
                    IntField(obj.min_years_experience),
                    IntField(obj.max_years_experience),
                    IF obj.skills.t = "absent" THEN <<>>
                    ELSE ensure_list(obj.skills),
                    StrField(obj.location),
                    StrField(obj.job_type),
                    StrField(obj.contact),
                    BoolField(obj.verdict_relevant))
    ELSE ValidationError

\* The objects the response of the oracle may parse to: two of the shape the
\* prompt asks for, one with nothing but a verdict, one whose skills is a
\* number, one without a verdict and one whose years are a word.
ObjRelevant ==
    Extraction(JStr(DataAnalystLabel), JInt(0), JInt(1),
               JStr(<<"s", ",", " ", "q">>), JNull, JNull, JNull, JBool(TRUE))

ObjIrrelevant ==
    Extraction(JNull, JNull, JNull, JList(<<>>), JNull, JNull, JNull,
               JBool(FALSE))

ObjVerdictOnly ==
    Extraction(JAbsent, JAbsent, JAbsent, JAbsent, JAbsent, JAbsent, JAbsent,
               JBool(FALSE))

ObjSkillsNumber ==
    Extraction(JNull, JNull, JNull, JInt(42), JNull, JNull, JNull,
               JBool(FALSE))

ObjNoVerdict ==
    Extraction(JStr(DataAnalystLabel), JInt(0), JInt(1),
               JList(<< <<"s">>, <<"q">> >>), JNull, JNull, JNull, JAbsent)

ObjYearsWord ==
    Extraction(JNull, JStr(<<"t", "w", "o">>), JNull, JList(<<>>), JNull, JNull,
               JNull, JBool(TRUE))

ParsedObjects ==
    { ObjRelevant, ObjIrrelevant, ObjVerdictOnly, ObjSkillsNumber, ObjNoVerdict,
      ObjYearsWord }

\* Lines 172-181 for a response that holds the JSON object obj: the object
\* either fails validation or becomes an Extraction.
ResponseOutcome(obj) ==
    Bind(Validate(obj), LAMBDA made :
        IF made = ValidationError
        THEN [kind |-> "invalid", object |-> obj]
        ELSE [kind |-> "valid", object |-> obj, result |-> made])

\* What one request to the oracle may come to: requests.post raises (network
\* error, timeout), raise_for_status raises, the response parses to no JSON
\* object, the object fails validation, or it validates.
OracleOutcomes ==
    { [kind |-> k] :
        k \in {"network_error", "timeout", "http_error", "unparseable"} }
    \cup { ResponseOutcome(obj) : obj \in ParsedObjects }

\* json.loads returned an object in this outcome (lines 172-180).
Loaded(o) == o.kind \in {"invalid", "valid"}

\* Lines 153-181 raise for this outcome.
AttemptRaises(o) == o.kind # "valid"

\* The number of attempts of extract: range(2), line 152.
ExtractAttempts == 2

\* A mutant of lines 182-186: the exception of the last attempt is re-raised.
AfterExceptionReraise(att) == IF att = 1 THEN "raise" ELSE "retry"

\* A mutant of lines 182-186: None is returned after the first failure.
AfterExceptionNoRetry(att) == IF att = 0 THEN "none" ELSE "retry"

\* Lines 182-186: what extract does after an attempt raised.
AfterException(att) ==
    IF att = 1 THEN "none"
    ELSE IF att + 1 < ExtractAttempts THEN "retry" ELSE "none"

\* A mutant of line 576: every classified post is kept.
KeepsAll(e) == TRUE

\* Line 576: the post goes on to record construction.
Keeps(e) == e.verdict_relevant

\* A mutant of lines 535-541: the result of ensure_logged_in is ignored.
AfterAuthIgnored(ok) == "save_state"

\* Lines 535-544: where run_scrape goes after ensure_logged_in returned.
AfterAuth(ok) == IF ok THEN "save_state" ELSE "auth_failed"

(***************************************************************************)
(* run_scrape, step by step                                                *)
(***************************************************************************)
Handles(n) == { <<"context", n>>, <<"browser", n>> }

\* `context.close(); browser.close()` inside try/except: nothing raises, or
\* context.close() raises and browser.close() is skipped, or browser.close()
\* raises.
CloseOutcomes == {"closed", "context_raises", "browser_raises"}

AfterClose(op, n, how) ==
    CASE how = "closed"         -> op \ Handles(n)
      [] how = "context_raises" -> op
      [] how = "browser_raises" -> op \ { <<"context", n>> }

RunInit ==
    /\ rpc = "start"
    /\ headless \in BOOLEAN
    /\ has_creds \in BOOLEAN
    /\ storage_exists \in BOOLEAN
    /\ open = {}
    /\ cur = 1
    /\ auth_result = "none"
    /\ pending = "none"
    /\ crash_cause = "none"
    /\ exit_code = 0
    /\ session_writes = 0
    /\ search_navs = 0
    /\ oracle_calls = 0
    /\ idx = 0
    /\ attempt = 0
    /\ extraction = NoExtraction
    /\ parsed = NoObject
    /\ used_fallback = FALSE
    /\ post_calls = <<>>
    /\ finals = <<>>
    /\ kept = <<>>
    /\ args_login \in BOOLEAN
    /\ success = FALSE
    /\ summary = "none"
    /\ state_write = "none"
    /\ auth_steps = <<>>

\* An exception leaves run_scrape: the with block is left by it.
Crash(cause) ==
    /\ pending' = "exception"
    /\ crash_cause' = cause
    /\ rpc' = "teardown"

\* Lines 515-518: the oracle client is built and a browser launched.  main
\* calls run_scrape when --login was not given (lines 666-686).
RunLaunch ==
    /\ rpc = "start"
    /\ ~args_login
    /\ open' = Handles(1)
    /\ rpc' = "storage"
    /\ UNCHANGED <<headless, has_creds, storage_exists, cur, auth_result, pending,
                   crash_cause, exit_code, session_writes, search_navs,
                   oracle_calls, idx, attempt, extraction, parsed, used_fallback,
                   post_calls, finals, kept>>
    /\ UNCHANGED <<storeVars, collectVars>>
    /\ UNCHANGED <<args_login, success, summary, state_write, auth_steps>>

\* Lines 521-531: with a stored session the first browser is closed and a
\* second one launched from the stored state.
RunLoadStorage ==
    /\ rpc = "storage"
    /\ IF storage_exists
       THEN \E how \in CloseOutcomes :
               /\ open' = AfterClose(open, 1, how) \cup Handles(2)
               /\ cur' = 2
       ELSE UNCHANGED <<open, cur>>
    /\ rpc' = "auth"
    /\ UNCHANGED <<headless, has_creds, storage_exists, auth_result, pending,
                   crash_cause, exit_code, session_writes, search_navs,
                   oracle_calls, idx, attempt, extraction, parsed, used_fallback,
                   post_calls, finals, kept>>
    /\ UNCHANGED <<storeVars, collectVars>>
    /\ UNCHANGED <<args_login, success, summary, state_write, auth_steps>>

\* What loading the feed page comes to (lines 250-257): the page stays on the
\* feed, it is redirected to a login url, goto times out, or goto raises
\* another error.
FeedOutcomes == {"feed", "login", "timeout", "error"}

\* What the wait for the feed url in a visible browser comes to (lines 267-271).
ManualOutcomes == {"feed", "timeout", "error"}

\* A mutant of lines 266-271: the wait for a manual login is made in a
\* headless run too.
ensure_logged_in_wait_always(feed, creds, login, is_headless, manual) ==
    IF feed = "error" THEN "raises"
    ELSE IF feed = "feed" THEN "True"
    ELSE IF creds /\ login THEN "True"
    ELSE CASE manual = "feed"    -> "True"
           [] manual = "timeout" -> "False"
           [] manual = "error"   -> "raises"

\* ensure_logged_in (lines 248-273): "True", "False", or "raises" when an
\* exception other than a timeout leaves it.  `login` is what
\* try_login_with_credentials would return.
ensure_logged_in(feed, creds, login, is_headless, manual) ==
    IF feed = "error" THEN "raises"
    ELSE IF feed = "feed" THEN "True"
    ELSE IF creds /\ login THEN "True"
    ELSE IF ~is_headless
         THEN CASE manual = "feed"    -> "True"
                [] manual = "timeout" -> "False"
                [] manual = "error"   -> "raises"
         ELSE "False"

Step(name, result) == [step |-> name, result |-> result]

\* The steps ensure_logged_in goes through, each with what it came to: the
\* load of the feed page (lines 250-257), try_login_with_credentials (lines
\* 260-263), the wait for the feed url in a visible browser (lines 266-271).
EnsureSteps(feed, creds, login, is_headless, manual) ==
    <<Step("feed", feed)>>
    \o (IF feed \in {"feed", "error"} THEN <<>>
        ELSE (IF creds
              THEN <<Step("credentials", IF login THEN "True" ELSE "False")>>
              ELSE <<>>)
             \o (IF creds /\ login THEN <<>>
                 ELSE IF ~is_headless THEN <<Step("manual_wait", manual)>>
                 ELSE <<>>))

\* Line 534: ok = ensure_logged_in(...).
RunEnsureLoggedIn ==
    /\ rpc = "auth"
    /\ \E feed \in FeedOutcomes, login \in BOOLEAN, manual \in ManualOutcomes :
          LET res == ensure_logged_in(feed, has_creds, login, headless, manual)
          IN  /\ auth_steps' = EnsureSteps(feed, has_creds, login, headless, manual)
              /\ IF res = "raises"
                 THEN Crash("ensure_logged_in") /\ UNCHANGED auth_result
                 ELSE /\ auth_result' = IF res = "True" THEN "ok" ELSE "failed"
                      /\ rpc' = AfterAuth(res = "True")
                      /\ UNCHANGED <<pending, crash_cause>>
    /\ UNCHANGED <<headless, has_creds, storage_exists, open, cur, exit_code,
                   session_writes, search_navs, oracle_calls, idx, attempt,
                   extraction, parsed, used_fallback, post_calls, finals, kept>>
    /\ UNCHANGED <<storeVars, collectVars>>
    /\ UNCHANGED <<args_login, success, summary, state_write>>

\* Lines 535-541: not logged in; close what is open and sys.exit(1).
RunAuthFailed ==
    /\ rpc = "auth_failed"
    /\ \E how \in CloseOutcomes : open' = AfterClose(open, cur, how)
    /\ pending' = "sys_exit_1"
    /\ rpc' = "teardown"
    /\ UNCHANGED <<headless, has_creds, storage_exists, cur, auth_result,
                   crash_cause, exit_code, session_writes, search_navs,
                   oracle_calls, idx, attempt, extraction, parsed, used_fallback,
                   post_calls, finals, kept>>
    /\ UNCHANGED <<storeVars, collectVars>>
    /\ UNCHANGED <<args_login, success, summary, state_write>>
    /\ auth_steps' = <<>>

\* A mutant of lines 212-216: the exception of the write is not caught.
AfterStateWriteUncaught(written) == IF written THEN "returns" ELSE "raises"

\* Lines 212-216: how save_storage_state ends after context.storage_state
\* wrote the file or raised.
AfterStateWrite(written) == "returns"

\* save_storage_state(context, storage_state_path), lines 212-216, called
\* from `caller_name`, going on at `target`.
SaveStorageState(caller_name, target) ==
    /\ session_writes' = session_writes + 1
    /\ \E written \in BOOLEAN :
          /\ storage_exists' = (storage_exists \/ written)
          /\ state_write' = IF written THEN "written" ELSE "failed"
          /\ IF AfterStateWrite(written) = "returns"
             THEN rpc' = target /\ UNCHANGED <<pending, crash_cause>>
             ELSE Crash(caller_name)

\* Line 544: save_storage_state; the write succeeds or raises, and the
\* exception is swallowed (lines 212-216).
RunSaveStorageState ==
    /\ rpc = "save_state"
    /\ SaveStorageState("save_storage_state", "search")
    /\ UNCHANGED <<headless, has_creds, open, cur, auth_result, exit_code,
                   search_navs, oracle_calls, idx, attempt, extraction, parsed,
                   used_fallback, post_calls, finals, kept>>
    /\ UNCHANGED <<storeVars, collectVars>>
    /\ UNCHANGED <<args_login, success, summary>>
    /\ auth_steps' = <<>>

\* Lines 546-549: search_posts navigates to the results page and collects.
RunSearchPosts ==
    /\ rpc = "search"
    /\ search_navs' = search_navs + 1
    /\ \E res \in CollectResults(max_posts) :
          /\ collected' = res
          /\ cpc' = "done"
    /\ idx' = 1
    /\ rpc' = "classify"
    /\ UNCHANGED <<headless, has_creds, storage_exists, open, cur, auth_result,
                   pending, crash_cause, exit_code, session_writes, oracle_calls,
                   attempt, extraction, parsed, used_fallback, post_calls, finals, kept>>
    /\ UNCHANGED <<storeVars, max_posts, seen_hashes, last_height,
                   stagnant_scrolls, articles, art_i, log>>
    /\ UNCHANGED <<args_login, success, summary, state_write, auth_steps>>

\* Line 401: page.goto of the results page raises (a timeout included).
RunSearchNavFails ==
    /\ rpc = "search"
    /\ search_navs' = search_navs + 1
    /\ Crash("search_posts")
    /\ UNCHANGED <<headless, has_creds, storage_exists, open, cur, auth_result,
                   exit_code, session_writes, oracle_calls, idx, attempt,
                   extraction, parsed, used_fallback, post_calls, finals, kept>>
    /\ UNCHANGED <<storeVars, collectVars>>
    /\ UNCHANGED <<args_login, success, summary, state_write, auth_steps>>

\* text = raw.get("post_text") or ""
PostText(raw) == OrEmpty(raw.post_text)

\* Lines 552-557: the next post; one without text is skipped, another is
\* handed to ollama.extract.
RunNextPost ==
    /\ rpc = "classify"
    /\ idx <= Len(collected)
    /\ IF ~StripNonEmpty(PostText(collected[idx]))
       THEN /\ idx' = idx + 1
            /\ UNCHANGED <<rpc, attempt>>
       ELSE /\ rpc' = "oracle"
            /\ attempt' = 0
            /\ UNCHANGED idx
    /\ extraction' = NoExtraction
    /\ parsed' = NoObject
    /\ used_fallback' = FALSE
    /\ post_calls' = <<>>
    /\ UNCHANGED <<headless, has_creds, storage_exists, open, cur, auth_result,
                   pending, crash_cause, exit_code, session_writes, search_navs,
                   oracle_calls, finals, kept>>
    /\ UNCHANGED <<storeVars, collectVars>>
    /\ UNCHANGED <<args_login, success, summary, state_write, auth_steps>>

\* Lines 152-186: one attempt of extract on the text of the current post.
RunOracleAttempt ==
    /\ rpc = "oracle"
    /\ attempt < ExtractAttempts
    /\ oracle_calls' = oracle_calls + 1
    /\ \E o \in OracleOutcomes :
          /\ post_calls' = Append(post_calls,
                                  [text |-> PostText(collected[idx]),
                                   attempt |-> attempt, outcome |-> o.kind])
          /\ parsed' = IF Loaded(o) THEN o.object ELSE parsed
          /\ IF ~AttemptRaises(o)
             THEN /\ extraction' = o.result
                  /\ rpc' = "filter"
                  /\ UNCHANGED <<attempt, pending, crash_cause>>
             ELSE CASE AfterException(attempt) = "retry" ->
                          /\ attempt' = attempt + 1
                          /\ UNCHANGED <<extraction, rpc, pending, crash_cause>>
                    [] AfterException(attempt) = "none" ->
                          /\ extraction' = NoExtraction
                          /\ rpc' = "fallback"
                          /\ UNCHANGED <<attempt, pending, crash_cause>>
                    [] AfterException(attempt) = "raise" ->
                          /\ Crash("oracle")
                          /\ UNCHANGED <<attempt, extraction>>
    /\ UNCHANGED <<headless, has_creds, storage_exists, open, cur, auth_result,
                   exit_code, session_writes, search_navs, idx, used_fallback,
                   finals, kept>>
    /\ UNCHANGED <<storeVars, collectVars>>
    /\ UNCHANGED <<args_login, success, summary, state_write, auth_steps>>

\* Lines 558-574: extract returned None; the keyword heuristic decides.
RunFallback ==
    /\ rpc = "fallback"
    /\ extraction' = Fallback(PostText(collected[idx]))
    /\ parsed' = NoObject
    /\ used_fallback' = TRUE
    /\ rpc' = "filter"
    /\ UNCHANGED <<headless, has_creds, storage_exists, open, cur, auth_result,
                   pending, crash_cause, exit_code, session_writes, search_navs,
                   oracle_calls, idx, attempt, post_calls, finals, kept>>
    /\ UNCHANGED <<storeVars, collectVars>>
    /\ UNCHANGED <<args_login, success, summary, state_write, auth_steps>>

\* Lines 576-583: a post that is not relevant is dropped, a relevant one
\* becomes a PostRecord.  The iteration ends and with it the record of the
\* requests extract made for this post.
RunFilter ==
    /\ rpc = "filter"
    /\ finals' = Append(finals, [idx |-> idx, extraction |-> extraction,
                                 by_fallback |-> used_fallback])
    /\ IF Keeps(extraction)
       THEN kept' = Append(kept, build_post_record(collected[idx], extraction))
       ELSE UNCHANGED kept
    /\ idx' = idx + 1
    /\ attempt' = 0
    /\ post_calls' = <<>>
    /\ parsed' = NoObject
    /\ rpc' = "classify"
    /\ UNCHANGED <<headless, has_creds, storage_exists, open, cur, auth_result,
                   pending, crash_cause, exit_code, session_writes, search_navs,
                   oracle_calls, extraction, used_fallback>>
    /\ UNCHANGED <<storeVars, collectVars>>
    /\ UNCHANGED <<args_login, success, summary, state_write, auth_steps>>

\* A mutant of line 552: the loop is left after any post.
LoopDoneEarly(i, results) == TRUE

\* Line 552: enumerate(results, start=1) is exhausted.
LoopDone(i, results) == i > Len(results)

\* Lines 585-586: the loop is over and something was kept; call
\* append_and_save_excel(output_excel, kept).
RunPersist ==
    /\ rpc = "classify"
    /\ LoopDone(idx, collected)
    /\ kept # <<>>
    /\ spc = "idle"
    /\ new_rows' = kept
    /\ caller' = "run_scrape"
    /\ spc' = "load"
    /\ calls' = calls + 1
    /\ prior' = file
    /\ rpc' = "persist"
    /\ UNCHANGED <<file, existing_rows, combined, outcome, prev_new, repeated>>
    /\ UNCHANGED <<headless, has_creds, storage_exists, open, cur, auth_result,
                   pending, crash_cause, exit_code, session_writes, search_navs,
                   oracle_calls, idx, attempt, extraction, parsed, used_fallback,
                   post_calls, finals, kept>>
    /\ UNCHANGED collectVars
    /\ UNCHANGED <<args_login, success, summary, state_write, auth_steps>>

\* A mutant of lines 586-587: the summary is printed however the call ended.
AfterPersistSwallowed(how) == "wrote"

\* Lines 586-587: after a normal return the summary "Wrote N records" is
\* printed; an exception of append_and_save_excel is not caught.
AfterPersist(how) == IF how = "ok" THEN "wrote" ELSE "raises"

\* Lines 586-587: append_and_save_excel returned, or its exception leaves
\* run_scrape.
RunPersistEnds ==
    /\ rpc = "persist"
    /\ spc = "returned"
    /\ spc' = "idle"
    /\ caller' = "none"
    /\ new_rows' = <<>>
    /\ IF AfterPersist(outcome) = "wrote"
       THEN /\ summary' = "wrote"
            /\ rpc' = "close"
            /\ UNCHANGED <<pending, crash_cause>>
       ELSE /\ Crash("append_and_save_excel")
            /\ UNCHANGED summary
    /\ UNCHANGED <<file, existing_rows, combined, calls, prior, outcome,
                   prev_new, repeated>>
    /\ UNCHANGED <<headless, has_creds, storage_exists, open, cur, auth_result,
                   exit_code, session_writes, search_navs, oracle_calls, idx,
                   attempt, extraction, parsed, used_fallback, post_calls, finals, kept>>
    /\ UNCHANGED collectVars
    /\ UNCHANGED <<args_login, success, state_write, auth_steps>>

\* Lines 588-589: the loop is over and nothing was kept.
RunNothingKept ==
    /\ rpc = "classify"
    /\ LoopDone(idx, collected)
    /\ kept = <<>>
    /\ summary' = "nothing"
    /\ rpc' = "close"
    /\ UNCHANGED <<headless, has_creds, storage_exists, open, cur, auth_result,
                   pending, crash_cause, exit_code, session_writes, search_navs,
                   oracle_calls, idx, attempt, extraction, parsed, used_fallback,
                   post_calls, finals, kept>>
    /\ UNCHANGED <<storeVars, collectVars>>
    /\ UNCHANGED <<args_login, success, state_write, auth_steps>>

\* Lines 591-594: close the context and the browser; run_scrape returns.
RunClose ==
    /\ rpc = "close"
    /\ \E how \in CloseOutcomes : open' = AfterClose(open, cur, how)
    /\ pending' = "return"
    /\ rpc' = "teardown"
    /\ UNCHANGED <<headless, has_creds, storage_exists, cur, auth_result,
                   crash_cause, exit_code, session_writes, search_navs,
                   oracle_calls, idx, attempt, extraction, parsed, used_fallback,
                   post_calls, finals, kept>>
    /\ UNCHANGED <<storeVars, collectVars>>
    /\ UNCHANGED <<args_login, success, summary, state_write, auth_steps>>

\* Lines 517 and 598: the with block of sync_playwright is left (by return,
\* by sys.exit or by an exception); Playwright stops and what it launched ends
\* with it.  Then the process exits.
RunTeardown ==
    /\ rpc = "teardown"
    /\ open' = {}
    /\ exit_code' = IF pending = "return" THEN 0 ELSE 1
    /\ rpc' = "exited"
    /\ UNCHANGED <<headless, has_creds, storage_exists, cur, auth_result, pending,
                   crash_cause, session_writes, search_navs, oracle_calls, idx,
                   attempt, extraction, parsed, used_fallback, post_calls, finals, kept>>
    /\ UNCHANGED <<storeVars, collectVars>>
    /\ UNCHANGED <<args_login, success, summary, state_write, auth_steps>>

(***************************************************************************)
(* run_login_only, step by step                                            *)
(***************************************************************************)
\* What the scrape leaves alone in the login-only mode.
scrapeLocals == <<auth_result, search_navs, oracle_calls, idx, attempt,
                  extraction, parsed, used_fallback, post_calls, finals, kept,
                  summary, auth_steps>>

\* Lines 598-602: main calls run_login_only when --login was given (lines
\* 666-673); a browser is launched and success = False.
LoginLaunch ==
    /\ rpc = "start"
    /\ args_login
    /\ open' = Handles(1)
    /\ success' = FALSE
    /\ rpc' = "lo_creds"
    /\ UNCHANGED <<headless, has_creds, storage_exists, cur, pending,
                   crash_cause, exit_code, session_writes, args_login,
                   state_write>>
    /\ UNCHANGED <<scrapeLocals, storeVars, collectVars>>

\* Lines 606-608: where run_login_only goes from `if not success`.
AfterCredentials(ok, is_headless) ==
    IF ok THEN "lo_save" ELSE IF is_headless THEN "lo_bail" ELSE "lo_manual"

\* Lines 603-608: with both credentials, try_login_with_credentials decides
\* success (it returns False on every exception, lines 219-245).
LoginCredentials ==
    /\ rpc = "lo_creds"
    /\ \E ok \in (IF has_creds THEN BOOLEAN ELSE {FALSE}) :
          /\ success' = ok
          /\ rpc' = AfterCredentials(ok, headless)
    /\ UNCHANGED <<headless, has_creds, storage_exists, open, cur, pending,
                   crash_cause, exit_code, session_writes, args_login,
                   state_write>>
    /\ UNCHANGED <<scrapeLocals, storeVars, collectVars>>

\* Lines 608-613: headless and not logged in; close and sys.exit(1).
LoginBail ==
    /\ rpc = "lo_bail"
    /\ \E how \in CloseOutcomes : open' = AfterClose(open, cur, how)
    /\ pending' = "sys_exit_1"
    /\ rpc' = "teardown"
    /\ UNCHANGED <<headless, has_creds, storage_exists, cur, crash_cause,
                   exit_code, session_writes, args_login, success, state_write>>
    /\ UNCHANGED <<scrapeLocals, storeVars, collectVars>>

\* Lines 614-621: the login page is loaded (page.goto is in no try) and the
\* user is given two minutes to reach the feed.
LoginManual ==
    /\ rpc = "lo_manual"
    /\ \E nav \in {"loaded", "raises"}, manual \in ManualOutcomes :
          IF nav = "raises" \/ manual = "error"
          THEN Crash("run_login_only") /\ UNCHANGED success
          ELSE /\ success' = (manual = "feed")
               /\ rpc' = IF manual = "feed" THEN "lo_save" ELSE "lo_failed"
               /\ UNCHANGED <<pending, crash_cause>>
    /\ UNCHANGED <<headless, has_creds, storage_exists, open, cur, exit_code,
                   session_writes, args_login, state_write>>
    /\ UNCHANGED <<scrapeLocals, storeVars, collectVars>>

\* Lines 623-625: success; the session state is saved.
LoginSave ==
    /\ rpc = "lo_save"
    /\ SaveStorageState("save_storage_state", "lo_close")
    /\ UNCHANGED <<headless, has_creds, open, cur, exit_code, args_login,
                   success>>
    /\ UNCHANGED <<scrapeLocals, storeVars, collectVars>>

\* Lines 626-628: login not completed; sys.exit(1) with nothing closed.
LoginNotCompleted ==
    /\ rpc = "lo_failed"
    /\ pending' = "sys_exit_1"
    /\ rpc' = "teardown"
    /\ UNCHANGED <<headless, has_creds, storage_exists, open, cur, crash_cause,
                   exit_code, session_writes, args_login, success, state_write>>
    /\ UNCHANGED <<scrapeLocals, storeVars, collectVars>>

\* Lines 630-633: close the context and the browser; run_login_only returns.
LoginClose ==
    /\ rpc = "lo_close"
    /\ \E how \in CloseOutcomes : open' = AfterClose(open, cur, how)
    /\ pending' = "return"
    /\ rpc' = "teardown"
    /\ UNCHANGED <<headless, has_creds, storage_exists, cur, crash_cause,
                   exit_code, session_writes, args_login, success, state_write>>
    /\ UNCHANGED <<scrapeLocals, storeVars, collectVars>>

\* The collector as run_scrape sees it: called once, through search_posts.
CollectPending ==
    /\ max_posts \in {1, MaxPostsArg}
    /\ collected = <<>>
    /\ seen_hashes = {}
    /\ last_height = 0
    /\ stagnant_scrolls = 0
    /\ cpc = "idle"
    /\ articles = <<>>
    /\ art_i = 0
    /\ log = <<>>

\* The record tables a run is started on: none yet, or one of an earlier run.
RunFiles == {AbsentFile, SheetOf(IncomingRows(<<RecA2>>))}

\* The record table before the run.
StorePending ==
    /\ file \in RunFiles
    /\ StoreIdle
    /\ calls = 0
    /\ prior = file
    /\ outcome = "none"
    /\ prev_new = <<>>
    /\ repeated = FALSE

Init == RunInit /\ CollectPending /\ StorePending

Next ==
    \/ RunLaunch
    \/ RunLoadStorage
    \/ RunEnsureLoggedIn
    \/ RunAuthFailed
    \/ RunSaveStorageState
    \/ RunSearchPosts
    \/ RunSearchNavFails
    \/ RunNextPost
    \/ RunOracleAttempt
    \/ RunFallback
    \/ RunFilter
    \/ RunPersist
    \/ LoadExisting /\ UNCHANGED <<collectVars, runVars>>
    \/ Combine /\ UNCHANGED <<collectVars, runVars>>
    \/ SaveRefused /\ UNCHANGED <<collectVars, runVars>>
    \/ SaveOpen /\ UNCHANGED <<collectVars, runVars>>
    \/ SaveClose /\ UNCHANGED <<collectVars, runVars>>
    \/ SaveInterrupted /\ UNCHANGED <<collectVars, runVars>>
    \/ RunPersistEnds
    \/ RunNothingKept
    \/ RunClose
    \/ RunTeardown
    \/ LoginLaunch
    \/ LoginCredentials
    \/ LoginBail
    \/ LoginManual
    \/ LoginSave
    \/ LoginNotCompleted
    \/ LoginClose

Spec == Init /\ [][Next]_vars

(***************************************************************************)
(* Claims about a scrape run                                               *)
(***************************************************************************)
\* The text of the post being classified.
CurrentText == PostText(collected[idx])

Failed(c) == c.outcome # "valid"

\* C3: whatever the oracle does on each attempt, no exception of the oracle
\* leaves extract, the attempts left never run out before extract has
\* returned, and the classify step hands the filter an Extraction whose
\* verdict_relevant is a boolean.
C3_ClassificationTotal ==
    /\ crash_cause # "oracle"
    /\ rpc \in {"oracle", "fallback", "filter"} => pending = "none"
    /\ rpc = "oracle" => attempt < ExtractAttempts
    /\ rpc = "filter" =>
          /\ extraction # NoExtraction
          /\ extraction.verdict_relevant \in BOOLEAN

\* The oracle failed twice, by a network error and by an unparseable
\* response, on a text with neither marker, and the filter holds the
\* fallback's Extraction.
C3_Witness ==
    /\ rpc = "filter"
    /\ used_fallback
    /\ CurrentText = TextSenior
    /\ Len(post_calls) = 2
    /\ post_calls[1].outcome = "network_error"
    /\ post_calls[2].outcome = "unparseable"
    /\ extraction.verdict_relevant = FALSE

\* C4: for one post the oracle is called at most twice, every call with the
\* text of that post; the second call is made exactly when the first
\* failed; after two failures extract returns nothing and the fallback is
\* used; a result that is not the fallback's is the parsed object of the
\* last call, which succeeded.
C4_RetryBounded ==
    /\ Len(post_calls) <= 2
    /\ \A i \in 1..Len(post_calls) :
          /\ post_calls[i].text = CurrentText
          /\ post_calls[i].attempt = i - 1
    /\ Len(post_calls) = 2 => Failed(post_calls[1])
    /\ (Len(post_calls) = 1 /\ Failed(post_calls[1])) =>
          rpc = "oracle" /\ attempt = 1
    /\ (Len(post_calls) = 1 /\ ~Failed(post_calls[1])) =>
          rpc = "filter" /\ ~used_fallback
    /\ rpc = "fallback" =>
          /\ Len(post_calls) = 2
          /\ Failed(post_calls[2])
          /\ extraction = NoExtraction
    /\ (rpc = "filter" /\ used_fallback) =>
          Len(post_calls) = 2 /\ Failed(post_calls[2])
    /\ (rpc = "filter" /\ ~used_fallback) =>
          /\ post_calls # <<>>
          /\ ~Failed(post_calls[Len(post_calls)])
          /\ extraction \in {OracleRelevant, OracleIrrelevant}

\* The first request timed out and the second, with the same text, returned
\* an object that fails validation: extract has returned None.
C4_Witness ==
    /\ rpc = "fallback"
    /\ post_calls = << [text |-> TextJunior, attempt |-> 0, outcome |-> "timeout"],
                       [text |-> TextJunior, attempt |-> 1, outcome |-> "invalid"] >>

\* The classified posts of this run whose final Extraction is relevant.
RelevantFinals == SelectSeq(finals, LAMBDA f : f.extraction.verdict_relevant)

\* The keys of the rows built from the records kept so far.
KeptKeys == {make_key(to_row(kept[k])) : k \in 1..Len(kept)}

\* C8: the records kept are, in order, the records built from the collected
\* fragments whose final Extraction is relevant and from no other; what the
\* record store is handed is that list; and the table gains no row that is
\* not the row of a kept record.
C8_OnlyRelevantPersisted ==
    /\ Len(kept) = Len(RelevantFinals)
    /\ \A k \in 1..Len(kept) :
          kept[k] = build_post_record(collected[RelevantFinals[k].idx],
                                      RelevantFinals[k].extraction)
    /\ caller = "run_scrape" => new_rows = kept
    /\ calls > 0 => kept # <<>>
    /\ \A k \in 1..Len(FileKeys(file)) :
          \/ \E m \in 1..Len(FileKeys(prior)) : FileKeys(prior)[m] = FileKeys(file)[k]
          \/ FileKeys(file)[k] \in KeptKeys

\* Of three classified posts the second was judged irrelevant (by the
\* fallback) and the other two relevant; the table was written with the two.
C8_Witness ==
    /\ rpc = "close"
    /\ outcome = "ok"
    /\ collected = <<FragRoleOnly, FragExpOnly, FragJuniorLater>>
    /\ Len(finals) = 3
    /\ finals[1].extraction = OracleRelevant
    /\ finals[2].by_fallback /\ ~finals[2].extraction.verdict_relevant
    /\ finals[3].by_fallback /\ finals[3].extraction.verdict_relevant
    /\ Len(kept) = 2
    /\ Len(file.rows) >= 2

HasRole(t) == Contains(Lower(t), <<"d", "a", "t", "a", " ", "a", "n", "a", "l", "y", "s", "t">>)

HasExperienceSignal(t) == \E m \in fresher_markers : Contains(Lower(t), m)

\* The classified posts of this run that the fallback decided.
FallbackFinals == SelectSeq(finals, LAMBDA f : f.by_fallback)

\* C9: the Extraction of the fallback has verdict_relevant = hasRole and
\* hasExperienceSignal, the canonical role label exactly when hasRole, years
\* 0 and 2 exactly when hasExperienceSignal, no skills, no location, job
\* type or contact; it is the same for two texts that are equal once
\* lower-cased; and "Junior Data Analyst, 0-2 yrs" is relevant with 0 and 2.
C9_FallbackFunction ==
    /\ (rpc = "filter" /\ used_fallback) =>
          /\ extraction.verdict_relevant =
                (HasRole(CurrentText) /\ HasExperienceSignal(CurrentText))
          /\ extraction.role_title =
                IF HasRole(CurrentText) THEN DataAnalystLabel ELSE None
          /\ extraction.min_years_experience =
                IF HasExperienceSignal(CurrentText) THEN PyInt(0) ELSE None
          /\ extraction.max_years_experience =
                IF HasExperienceSignal(CurrentText) THEN PyInt(2) ELSE None
          /\ extraction.skills = <<>>
          /\ extraction.location = None
          /\ extraction.job_type = None
          /\ extraction.contact = None
          /\ CurrentText = TextJunior =>
                /\ extraction.verdict_relevant
                /\ extraction.min_years_experience = PyInt(0)
                /\ extraction.max_years_experience = PyInt(2)
    /\ \A i, j \in 1..Len(FallbackFinals) :
          Lower(PostText(collected[FallbackFinals[i].idx]))
             = Lower(PostText(collected[FallbackFinals[j].idx]))
          => FallbackFinals[i].extraction = FallbackFinals[j].extraction

\* The fallback decided "JUNIOR DATA ANALYST, 0-2 YRS" and now decides
\* "Junior Data Analyst, 0-2 yrs": relevant, 0 to 2 years.
C9_Witness ==
    /\ rpc = "filter"
    /\ used_fallback
    /\ CurrentText = TextJunior
    /\ Len(finals) = 1
    /\ finals[1].by_fallback
    /\ PostText(collected[finals[1].idx]) = TextShout
    /\ extraction.verdict_relevant

\* C10: once ensure_logged_in has returned False the run makes no search
\* navigation, no oracle request, no session-state write and no call of the
\* record store, the table stays as it was, and the process exits with a
\* non-zero status, no browser or context left open.
C10_AuthFailureFatalAndClean ==
    auth_result = "failed" =>
        /\ search_navs = 0
        /\ oracle_calls = 0
        /\ session_writes = 0
        /\ calls = 0
        /\ file = prior
        /\ rpc \in {"auth_failed", "teardown", "exited"}
        /\ rpc = "exited" => (open = {} /\ exit_code # 0)

\* A run started from a stored session, in its second browser, was found
\* not logged in and has exited with status 1.
C10_Witness ==
    /\ auth_result = "failed"
    /\ rpc = "exited"
    /\ storage_exists
    /\ cur = 2
    /\ exit_code = 1

\* The run has ended abnormally: by sys.exit(1) or by an exception.
EndedAbnormally == rpc = "exited" /\ exit_code # 0

\* C11: a scrape run ends abnormally only when authentication failed (an
\* exception of the authentication check counted with it) or when saving
\* the table failed; a failed navigation to the search results page, in
\* particular, does not end the run.
C11_OnlyAuthOrSaveFailureAborts ==
    (~args_login /\ EndedAbnormally) =>
        \/ auth_result = "failed"
        \/ crash_cause \in {"ensure_logged_in", "append_and_save_excel"}

\* C12: when append_and_save_excel has failed in a scrape run, no summary
\* line is printed, the exception leaves run_scrape and the process exits
\* with a non-zero status; the summary "Wrote N records" is printed only
\* after a call that returned.
C12_WriteFailureNotReportedAsSuccess ==
    /\ outcome = "failed" =>
          /\ kept # <<>>
          /\ summary = "none"
          /\ rpc # "persist" =>
                /\ pending = "exception"
                /\ crash_cause = "append_and_save_excel"
                /\ rpc \in {"teardown", "exited"}
          /\ rpc = "exited" => exit_code # 0
    /\ summary = "wrote" => outcome = "ok"

\* A run that kept two records has exited with status 1 after wb.save
\* failed in the middle of the write, the table left truncated.
C12_Witness ==
    /\ rpc = "exited"
    /\ outcome = "failed"
    /\ file = TruncatedFile
    /\ Len(kept) = 2
    /\ exit_code = 1
    /\ summary = "none"

(***************************************************************************)
(* More claims about the record store                                      *)
(***************************************************************************)
\* The positions of `rows` whose identity key occurs at no earlier position.
FirstPositions(rows) ==
    {i \in 1..Len(rows) :
        \A j \in 1..(i - 1) : make_key(rows[j]) # make_key(rows[i])}

\* The k-th smallest element of a set of positions.
NthOf(S, k) == CHOOSE i \in S : Cardinality({j \in S : j < i}) = k - 1

\* The rows at the first positions of their keys, in their order.
FirstOccurrences(rows) ==
    [k \in 1..Cardinality(FirstPositions(rows)) |->
        rows[NthOf(FirstPositions(rows), k)]]

\* A row as it reads back once written.
ReadBack(row) == [col \in ColumnSet |-> CellWritten(row[col])]

\* C13: after a successful call on a readable table the rows of the table
\* are the existing rows followed by the new rows, each row whose key
\* occurred earlier left out; the table starts with the existing rows of
\* first-occurring keys, values and order as they were stored; and every
\* identity key the table held before the call it holds after it.
C13_ExistingRowsWin ==
    (StoreReturnedOk /\ prior.exists /\ prior.valid) =>
        LET existing == load_existing_excel(prior)
            incoming == IncomingRows(prev_new)
            expected == FirstOccurrences(existing \o incoming)
            after    == load_existing_excel(file)
            stay     == FirstOccurrences(existing)
        IN  /\ Len(after) = Len(expected)
            /\ \A k \in 1..Len(after) : after[k] = ReadBack(expected[k])
            /\ Len(stay) <= Len(after)
            /\ \A k \in 1..Len(stay) : after[k] = stay[k]
            /\ \A k \in 1..Len(existing) :
                  \E m \in 1..Len(after) :
                      make_key(after[m]) = make_key(existing[k])

\* A table holding one row was merged with three records, one with the key
\* of that row and another role title: the row is still first and as it
\* was, and one row was added.
C13_Witness ==
    /\ StoreReturnedOk
    /\ prior = SheetOf(IncomingRows(<<RecA2>>))
    /\ prev_new = <<RecNoUrl, RecA, RecA2>>
    /\ Len(file.rows) = 2
    /\ load_existing_excel(file)[1].role_title = None

(***************************************************************************)
(* build_post_record and extract_profile_id on their own                   *)
(***************************************************************************)
\* How far below and above the limit of 500 the lengths of the texts go.
MaxOver == 3

TextLengths == {1} \cup ((ExcerptLimit - MaxOver)..(ExcerptLimit + MaxOver))

Digits == <<"0", "1", "2", "3", "4", "5", "6", "7", "8", "9">>

\* A text of n characters, the i-th being the last digit of i.
TextOfLength(n) == [i \in 1..n |-> Digits[(i % 10) + 1]]

\* The post texts build_post_record is given: none, or one of each length.
BuildTexts == {None} \cup {TextOfLength(n) : n \in TextLengths}

\* The profile urls build_post_record is given.
ProfileUrls ==
    { None, EmptyStr,
      <<"h", "t", "t", "p", "s", ":", "/", "/", "l", ".", "c", "o", "/", "i", "n", "/", "j", "-", "d", "/">>,
      <<"h", "t", "t", "p", "s", ":", "/", "/", "l", ".", "c", "o", "/", "s", "l", "u", "g">>,
      <<"h", "t", "t", "p", "s", ":", "/", "/", "l", ".", "c", "o", "/", "c", "o", "m", "p", "a", "n", "y", "/", "a", "c">>,
      <<"h", "t", "t", "p", "s", ":", "/", "/", "l", ".", "c", "o", "/", "i", "n", "/">>,
      <<"h", "t", "t", "p", "s", ":", "/", "/", "l", ".", "c", "o">>,
      <<"h", "t", "t", "p", "s", ":", "/", "/", "l", ".", "c", "o", "/", "/", "i", "n", "/", "/", "x", "?", "y", "=", "/", "z", "#", "/", "w">>,
      <<"h", "t", "t", "p", "s", ":", "/", "/", "[", ":", ":", "1", "/", "i", "n", "/", "x">>,
      <<"h", "t", "t", "p", "s", ":", "/", "/", "l", ".", "c", "o", "]", "/", "i", "n", "/", "x">>,
      <<"/", "i", "n", "/", "x", ";", "p">>,
      <<"i", "n", "/", "x">>,
      <<"h", "t", "t", "p", "s", ":", "/", "/", "l", ".", "c", "o", "/", "p", "u", "b", "/", "x">>,
      <<"h", "t", "t", "p", "s", ":", "/", "/", "l", ".", "c", "o", "/", "?", "a", "=", "/", "i", "n", "/", "x">>,
      <<"I", "N", "/", "x">>,
      <<"x", ":", "i", "n", ";", "p">> }

\* A call build_post_record(raw, extraction) is about to be made.
RecordInit ==
    /\ rpc = "build"
    /\ \E text \in BuildTexts, profile \in ProfileUrls :
          collected = <<RawPost(text, None, profile, UrlPost1, None)>>
    /\ extraction \in {OracleRelevant, Fallback(TextJunior)}
    /\ idx = 1
    /\ kept = <<>>
    /\ headless = TRUE
    /\ has_creds = FALSE
    /\ storage_exists = FALSE
    /\ open = {}
    /\ cur = 1
    /\ auth_result = "none"
    /\ pending = "none"
    /\ crash_cause = "none"
    /\ exit_code = 0
    /\ session_writes = 0
    /\ search_navs = 0
    /\ oracle_calls = 0
    /\ attempt = 0
    /\ used_fallback = FALSE
    /\ parsed = NoObject
    /\ post_calls = <<>>
    /\ finals = <<>>
    /\ args_login = FALSE
    /\ success = FALSE
    /\ summary = "none"
    /\ state_write = "none"
    /\ auth_steps = <<>>
    /\ max_posts = 1
    /\ seen_hashes = {}
    /\ last_height = 0
    /\ stagnant_scrolls = 0
    /\ cpc = "idle"
    /\ articles = <<>>
    /\ art_i = 0
    /\ log = <<>>

\* Lines 579-580: record = build_post_record(raw, extraction).
BuildRecord ==
    /\ rpc = "build"
    /\ kept' = Append(kept, build_post_record(collected[idx], extraction))
    /\ rpc' = "built"
    /\ UNCHANGED <<headless, has_creds, storage_exists, open, cur, auth_result,
                   pending, crash_cause, exit_code, session_writes, search_navs,
                   oracle_calls, idx, attempt, extraction, parsed, used_fallback,
                   post_calls, finals, args_login, success, summary,
                   state_write, auth_steps>>
    /\ UNCHANGED <<storeVars, collectVars>>

RecordNext == BuildRecord

RecordSpecInit == RecordInit /\ StoreUnused

RecordSpec == RecordSpecInit /\ [][RecordNext]_vars

\* The argument and the result of the call of build_post_record.
BuiltFrom == collected[1]

Built == kept[1]

Ellipsis == <<".", ".", ".">>

\* C14: the excerpt of a text of more than 500 characters has exactly 500
\* characters, the first 497 of the text and then three dots; the excerpt of
\* a text of at most 500 characters, or of no text, is the text; and the
\* excerpt of the row has at most 500 characters.
C14_TruncationLaw ==
    rpc = "built" =>
        LET text    == BuiltFrom.post_text
            excerpt == Built.post_excerpt
        IN  /\ (text # None /\ Len(text) > 500) =>
                  /\ Len(excerpt) = 500
                  /\ SubSeq(excerpt, 1, 497) = SubSeq(text, 1, 497)
                  /\ SubSeq(excerpt, 498, 500) = Ellipsis
            /\ (text = None \/ Len(text) <= 500) => excerpt = text
            /\ Len(to_row(Built).post_excerpt) <= 500

\* A text of 501 characters was cut to 500.
C14_Witness ==
    /\ rpc = "built"
    /\ Len(BuiltFrom.post_text) = 501
    /\ Len(Built.post_excerpt) = 500
    /\ Built.post_excerpt[500] = "."

\* The path segments of a url that are not empty.
Segments(url) ==
    SelectSeq(SplitOn(UrlSplit(url).path, "/"), LAMBDA seg : seg # EmptyStr)

NamespaceMarkers == { <<"i", "n">>, <<"c", "o", "m", "p", "a", "n", "y">> }

\* C15: the poster id is absent for no url, an empty url, a url urlparse
\* rejects and a url without path segments; otherwise it is the second
\* segment when the first is "in" or "company" and a second exists, and the
\* first segment when not.
C15_PosterIdDerivation ==
    rpc = "built" =>
        LET url == BuiltFrom.poster_profile_url
            id  == Built.poster_linkedin_id
        IN  /\ (url \in {None, EmptyStr} \/ UrlMalformed(url)) => id = None
            /\ (url \notin {None, EmptyStr} /\ ~UrlMalformed(url)) =>
                  /\ Segments(url) = <<>> => id = None
                  /\ (/\ Segments(url) # <<>>
                      /\ Segments(url)[1] \in NamespaceMarkers
                      /\ Len(Segments(url)) >= 2) => id = Segments(url)[2]
                  /\ (/\ Segments(url) # <<>>
                      /\ ~(/\ Segments(url)[1] \in NamespaceMarkers
                           /\ Len(Segments(url)) >= 2)) => id = Segments(url)[1]
            /\ url = <<"h", "t", "t", "p", "s", ":", "/", "/", "l", ".", "c", "o", "/", "i", "n", "/", "j", "-", "d", "/">> =>
                  id = <<"j", "-", "d">>
            /\ url = <<"h", "t", "t", "p", "s", ":", "/", "/", "l", ".", "c", "o", "/", "s", "l", "u", "g">> =>
                  id = <<"s", "l", "u", "g">>
            /\ url = <<"h", "t", "t", "p", "s", ":", "/", "/", "l", ".", "c", "o", "/", "i", "n", "/">> =>
                  id = <<"i", "n">>
            /\ url = <<"/", "i", "n", "/", "x", ";", "p">> => id = <<"x">>
            /\ url = <<"h", "t", "t", "p", "s", ":", "/", "/", "l", ".", "c", "o", "/", "?", "a", "=", "/", "i", "n", "/", "x">> => id = None

\* The id of a company page was taken from the second segment.
C15_Witness ==
    /\ rpc = "built"
    /\ BuiltFrom.poster_profile_url = <<"h", "t", "t", "p", "s", ":", "/", "/", "l", ".", "c", "o", "/", "c", "o", "m", "p", "a", "n", "y", "/", "a", "c">>
    /\ Built.poster_linkedin_id = <<"a", "c">>

\* The positions of the collected fragments that have a text to classify.
Classifiable ==
    {k \in 1..Len(collected) : StripNonEmpty(PostText(collected[k]))}

\* The positions of the fragments whose classification is complete.
Resolved == {finals[f].idx : f \in 1..Len(finals)}

\* C16: the oracle is called only after the collection has returned; posts
\* are classified in the order collected; while a post is being classified
\* every earlier post with a text is resolved and no later one has been
\* touched, and the requests made are those of this post; the record store
\* is called, and the table written, only when every post with a text is
\* resolved.
C16_PhaseAndPostOrdering ==
    /\ oracle_calls > 0 => (cpc = "done" /\ search_navs = 1)
    /\ \A i, j \in 1..Len(finals) : i < j => finals[i].idx < finals[j].idx
    /\ Resolved \subseteq Classifiable
    /\ rpc \in {"oracle", "fallback", "filter"} =>
          /\ cpc = "done"
          /\ idx \in Classifiable
          /\ Resolved = {k \in Classifiable : k < idx}
          /\ \A c \in 1..Len(post_calls) : post_calls[c].text = CurrentText
          /\ calls = 0
          /\ file = prior
    /\ rpc \notin {"oracle", "fallback", "filter"} => post_calls = <<>>
    /\ (calls > 0 \/ file # prior) =>
          /\ Resolved = Classifiable
          /\ rpc \notin {"classify", "oracle", "fallback", "filter"}

\* Three posts were classified with five requests in all, then the table
\* was written.
C16_Witness ==
    /\ rpc = "close"
    /\ calls = 1
    /\ outcome = "ok"
    /\ Len(finals) = 3
    /\ oracle_calls = 5
    /\ finals[2].by_fallback

\* Authentication has succeeded in this run: ensure_logged_in returned True
\* (scrape mode) or success is True (login-only mode).
Authenticated == auth_result = "ok" \/ success

\* C17: in both modes a run writes the session state at most once and only
\* when authenticated; once authenticated it makes the write before it goes
\* on to the search or to its exit; a write that failed leaves no exception
\* behind and a login-only run still ends with status 0.
C17_SessionStatePersistedOnSuccess ==
    /\ session_writes <= 1
    /\ (session_writes = 0) = (state_write = "none")
    /\ ~Authenticated => session_writes = 0
    /\ (Authenticated /\ rpc \notin {"save_state", "lo_save"}) => session_writes = 1
    /\ search_navs > 0 => session_writes = 1
    /\ state_write = "failed" =>
          /\ crash_cause # "save_storage_state"
          /\ rpc \notin {"save_state", "lo_save"}
          /\ (args_login /\ rpc = "exited") => (exit_code = 0 /\ pending = "return")
          /\ (~args_login /\ rpc = "exited") => search_navs = 1

\* A login-only run, logged in by hand in a visible browser, could not write
\* the session state and has ended with status 0.
C17_Witness ==
    /\ args_login
    /\ ~headless
    /\ rpc = "exited"
    /\ success
    /\ state_write = "failed"
    /\ session_writes = 1
    /\ exit_code = 0

\* The names of the steps the call of ensure_logged_in went through.
StepNames == {auth_steps[i].step : i \in 1..Len(auth_steps)}

\* The session check did not succeed: the feed page ended on a login url or
\* its load timed out.
CheckFailed == auth_steps[1].result \in {"login", "timeout"}

\* C18: a call of ensure_logged_in starts with the load of the feed page; if
\* that ends on a url that is no login url the call returns True at once,
\* with no credential login and no manual wait; the credential login is
\* made exactly when the check failed and both credentials are given; the
\* manual wait is made exactly when the check failed, no credential login
\* succeeded and the browser is visible; a headless call without a valid
\* session and without credentials returns False.
C18_CredentialsOnlyAfterFailedCheck ==
    auth_steps # <<>> =>
        /\ auth_steps[1].step = "feed"
        /\ auth_steps[1].result = "feed" =>
              (auth_steps = <<Step("feed", "feed")>> /\ auth_result = "ok")
        /\ ("credentials" \in StepNames) = (CheckFailed /\ has_creds)
        /\ ("manual_wait" \in StepNames) =
              (/\ CheckFailed
               /\ ~headless
               /\ Step("credentials", "True") \notin
                     {auth_steps[i] : i \in 1..Len(auth_steps)})
        /\ (Step("credentials", "True") = auth_steps[Len(auth_steps)]) =>
              auth_result = "ok"
        /\ (CheckFailed /\ headless /\ ~has_creds) =>
              (auth_steps = <<auth_steps[1]>> /\ auth_result = "failed")
        /\ (CheckFailed /\ headless /\ has_creds
              /\ auth_steps[Len(auth_steps)] = Step("credentials", "False")) =>
              auth_result = "failed"
        /\ auth_steps[Len(auth_steps)] = Step("manual_wait", "feed") =>
              auth_result = "ok"
        /\ auth_steps[Len(auth_steps)] = Step("manual_wait", "timeout") =>
              auth_result = "failed"

\* A headless call with credentials, redirected to the login page, tried
\* the credential login, which failed, and returned False without waiting.
C18_Witness ==
    /\ rpc = "auth_failed"
    /\ headless
    /\ has_creds
    /\ auth_steps = <<Step("feed", "login"), Step("credentials", "False")>>
    /\ auth_result = "failed"

(***************************************************************************)
(* Validation of the oracle's response                                     *)
(***************************************************************************)
\* full-time/part-time/intern/contract
JobTypes ==
    { <<"f", "u", "l", "l", "-", "t", "i", "m", "e">>,
      <<"p", "a", "r", "t", "-", "t", "i", "m", "e">>,
      <<"i", "n", "t", "e", "r", "n">>,
      <<"c", "o", "n", "t", "r", "a", "c", "t">> }

\* The object has every field of Extraction, each of the structure asked of
\* it: texts that are a string or null, years that are an integer or null,
\* skills that is a sequence, a delimited string or null, a job type that is
\* null or one of the four, and a verdict that is a boolean.
HasExtractionShape(obj) ==
    /\ \A f \in DOMAIN obj : obj[f].t # "absent"
    /\ \A f \in {"role_title", "location", "contact"} :
          obj[f].t \in {"str", "null"}
    /\ \A f \in {"min_years_experience", "max_years_experience"} :
          obj[f].t \in {"int", "null"}
    /\ obj.skills.t \in {"list", "str", "null"}
    /\ obj.job_type.t = "null"
       \/ (obj.job_type.t = "str" /\ obj.job_type.s \in JobTypes)
    /\ obj.verdict_relevant.t = "bool"

\* C19: validation of the oracle's response is all-or-nothing per attempt: an
\* attempt whose parsed object has a field of Extraction that is absent or
\* structurally invalid fails (and the retry or the fallback follows), so an
\* object that extract accepted has the whole shape; no offending field is
\* defaulted or nulled on its own.
C19_ValidationAllOrNothing ==
    /\ (rpc = "filter" /\ ~used_fallback) => HasExtractionShape(parsed)
    /\ (post_calls # <<>> /\ Loaded([kind |-> post_calls[Len(post_calls)].outcome])
          /\ ~HasExtractionShape(parsed)) =>
          Failed(post_calls[Len(post_calls)])
(***************************************************************************)
(* Reading a table that is absent or cannot be read                        *)
(***************************************************************************)
\* The path holds no file, or one that load_workbook cannot read.
Unreadable(f) == ~f.exists \/ ~f.valid

\* C20: reading the existing table never aborts the merge.  In a call that
\* found the output path without a file, or with a corrupt or unreadable one,
\* load_existing_excel yields no rows and the call goes on to merge and to
\* write; the rows merged are the deduplicated new rows, and the table the
\* call has written is the header row followed by exactly those rows.
C20_UnreadableTableReadsEmpty ==
    Unreadable(prior) =>
        /\ spc \in {"merge", "save", "writing"} =>
              existing_rows = load_existing_excel(prior) /\ existing_rows = <<>>
        /\ spc \in {"save", "writing"} =>
              combined = Dedup(IncomingRows(new_rows))
        /\ (spc = "idle" /\ outcome = "ok") =>
              /\ file.exists /\ file.valid
              /\ file.header = EXPECTED_COLUMNS
              /\ file = SheetOf(Dedup(IncomingRows(prev_new)))

\* A call that found a damaged file has written the two distinct rows of
\* three new records.
C20_Witness ==
    /\ spc = "idle"
    /\ outcome = "ok"
    /\ prior = DamagedFile
    /\ prev_new = <<RecBarR, RecA, RecBarL>>
    /\ Len(file.rows) = 2
(***************************************************************************)
(* From the collector to the classification loop                           *)
(***************************************************************************)
\* run_scrape has logged in and called search_posts (line 547), which has
\* called scroll_and_collect_posts (line 412).
RunCollecting ==
    /\ rpc = "collect"
    /\ headless = TRUE
    /\ has_creds = FALSE
    /\ storage_exists = FALSE
    /\ open = {}
    /\ cur = 1
    /\ auth_result = "ok"
    /\ pending = "none"
    /\ crash_cause = "none"
    /\ exit_code = 0
    /\ session_writes = 0
    /\ search_navs = 1
    /\ oracle_calls = 0
    /\ idx = 0
    /\ attempt = 0
    /\ extraction = NoExtraction
    /\ parsed = NoObject
    /\ used_fallback = FALSE
    /\ post_calls = <<>>
    /\ finals = <<>>
    /\ kept = <<>>
    /\ args_login = FALSE
    /\ success = FALSE
    /\ summary = "none"
    /\ state_write = "none"
    /\ auth_steps = <<>>

\* Lines 412-414 and 547-552: scroll_and_collect_posts has returned, its
\* locals are gone, and search_posts hands the list to run_scrape as results;
\* the loop over the results starts.
RunSearchReturns ==
    /\ rpc = "collect"
    /\ cpc = "done"
    /\ rpc' = "classify"
    /\ idx' = 1
    /\ cpc' = "idle"
    /\ seen_hashes' = {}
    /\ last_height' = 0
    /\ stagnant_scrolls' = 0
    /\ log' = <<>>
    /\ UNCHANGED <<max_posts, collected, articles, art_i>>
    /\ UNCHANGED <<headless, has_creds, storage_exists, open, cur, auth_result,
                   pending, crash_cause, exit_code, session_writes, search_navs,
                   oracle_calls, attempt, extraction, parsed, used_fallback,
                   post_calls, finals, kept, args_login, success, summary,
                   state_write, auth_steps>>
    /\ UNCHANGED storeVars

PipelineInit == CollectInit /\ StoreUnused /\ RunCollecting

PipelineNext ==
    \/ CollectNext
    \/ RunSearchReturns
    \/ RunNextPost
    \/ RunOracleAttempt
    \/ RunFallback
    \/ RunFilter

PipelineSpec == PipelineInit /\ [][PipelineNext]_vars

\* The fragment has a post text that is not absent and not only whitespace.
HasText(raw) ==
    /\ raw.post_text # None
    /\ \E i \in 1..Len(raw.post_text) : raw.post_text[i] # " "

\* The posts of the results the loop has passed or is at.
Reached ==
    {i \in 1..Len(collected) :
        i < idx \/ (i = idx /\ rpc \in {"oracle", "fallback", "filter"})}

\* The collector is at an article whose fields give no text and whose
\* fingerprint it has not seen, with room left.
AtNewEmptyArticle ==
    /\ cpc = "articles"
    /\ art_i <= Len(articles)
    /\ Len(collected) < max_posts
    /\ ~HasText(articles[art_i])
    /\ ~AlreadySeen(Fingerprint(articles[art_i]), seen_hashes)

\* The loop of run_scrape is at a post without text.
AtEmptyPost ==
    /\ rpc = "classify"
    /\ idx <= Len(collected)
    /\ ~HasText(collected[idx])

\* While the collector runs every fragment collected is fingerprinted and
\* counted; in the loop of run_scrape only posts with text have been sent to
\* the oracle, evaluated by the fallback or made a PostRecord.
EmptyNeverClassified ==
    /\ cpc \in {"head", "articles", "scroll", "done"} =>
          /\ \A i \in 1..Len(collected) :
                Fingerprint(collected[i]) \in seen_hashes
          /\ Cardinality(seen_hashes) = Len(collected)
          /\ Len(collected) <= max_posts
          /\ (cpc = "head" /\ Len(collected) >= max_posts) =>
                ~LoopGuard(Len(collected), max_posts, stagnant_scrolls)
    /\ rpc \in {"oracle", "fallback", "filter"} => HasText(collected[idx])
    /\ \A k \in 1..Len(finals) : HasText(collected[finals[k].idx])
    /\ oracle_calls <=
          ExtractAttempts * Cardinality({i \in Reached : HasText(collected[i])})
    /\ \A k \in 1..Len(kept) :
          \E j \in 1..Len(finals) :
              /\ HasText(collected[finals[j].idx])
              /\ kept[k] = build_post_record(collected[finals[j].idx],
                                             finals[j].extraction)

\* A step from an article without text collects and fingerprints it; a step
\* from a post without text moves to the next post with no oracle call, no
\* fallback evaluation and no PostRecord.
EmptyStep ==
    /\ AtNewEmptyArticle =>
          /\ collected' = Append(collected, articles[art_i])
          /\ seen_hashes' = seen_hashes \cup {Fingerprint(articles[art_i])}
    /\ AtEmptyPost =>
          /\ idx' = idx + 1
          /\ rpc' = "classify"
          /\ UNCHANGED <<oracle_calls, finals, kept, collected>>
          /\ ~used_fallback'

\* C21: empty-text fragments are collected but never classified.  A fragment
\* whose fields are all null is fingerprinted and counts toward max_posts in
\* the collector; in run_scrape a fragment whose post text is absent or only
\* whitespace causes no oracle call and no fallback evaluation and never
\* yields a PostRecord.
C21_EmptyCollectedNeverClassified ==
    []EmptyNeverClassified /\ [][EmptyStep]_vars

\* The fragment with every field null took one of the two places of
\* max_posts, so that the third article was left out; the loop of run_scrape
\* has passed it and classified only the other post, which was kept.
C21_Witness ==
    /\ max_posts = 2
    /\ collected = <<FragNull, FragJunior>>
    /\ rpc = "classify"
    /\ idx = 3
    /\ Len(finals) = 1 /\ finals[1].idx = 2
    /\ oracle_calls \in 1..2
    /\ Len(kept) = 1
(***************************************************************************)
(* The identity key                                                        *)
(***************************************************************************)
\* The (post_url, post_excerpt) pair of a row, absent taken as "".
IdentityPair(row) ==
    << IF row.post_url = None THEN EmptyStr ELSE row.post_url,
       IF row.post_excerpt = None THEN EmptyStr ELSE row.post_excerpt >>

\* The rows the dedup loop of the current call goes over (line 467).
MergedRows == existing_rows \o IncomingRows(new_rows)

\* C22: the identity key is injective on (post_url, post_excerpt): two rows
\* of a merge whose pairs differ never get the same key, so every row that
\* goes into the merge leaves it as a row with its own post_url and
\* post_excerpt; none is dropped as the duplicate of a row with another pair.
C22_KeyInjective ==
    spc \in {"save", "writing"} =>
        /\ \A i, j \in 1..Len(MergedRows) :
              IdentityPair(MergedRows[i]) # IdentityPair(MergedRows[j]) =>
                  make_key(MergedRows[i]) # make_key(MergedRows[j])
        /\ \A i \in 1..Len(MergedRows) :
              \E k \in 1..Len(combined) :
                  IdentityPair(combined[k]) = IdentityPair(MergedRows[i])
(***************************************************************************)
(* A height probe that raises                                              *)
(***************************************************************************)
\* The step is a scroll iteration whose probe raised.
ProbeRaisedStep == log' = Append(log, ProbeError)

\* The height the last probe that returned has measured, 0 before any.
LastMeasured ==
    IF Measured(log) = <<>> THEN 0 ELSE Measured(log)[Len(Measured(log))]

\* The counter and the recorded height are what the probes that returned
\* make them, whatever probes raised in between; a return with fewer than
\* max_posts fragments comes after five probes that returned, each with the
\* height unchanged, none of them followed by a change.
RaisedProbesLeaveNoTrace ==
    /\ cpc \in {"head", "articles", "scroll", "done"} =>
          /\ stagnant_scrolls = TrailingUnchanged(Measured(log))
          /\ last_height = LastMeasured
    /\ (cpc = "done" /\ Len(collected) < max_posts) =>
          /\ Len(Measured(log)) >= 5
          /\ TrailingUnchanged(Measured(log)) = 5

\* C23: a scroll iteration whose height probe raises leaves the stagnation
\* counter and the last recorded height unchanged: it is no stagnant attempt
\* and it resets nothing.  So, with fewer than max_posts fragments collected,
\* the loop ends only after five probes that succeeded with an unchanged
\* height and were not separated by a change of height.
C23_RaisedProbeChangesNothing ==
    /\ [][ProbeRaisedStep => UNCHANGED <<stagnant_scrolls, last_height>>]_vars
    /\ []RaisedProbesLeaveNoTrace

\* The collector has returned short of max_posts after seven scroll
\* iterations: two probes raised among the five that found the height
\* unchanged.
C23_Witness ==
    /\ cpc = "done"
    /\ Len(collected) < max_posts
    /\ log = <<0, ProbeError, 0, 0, ProbeError, 0, 0>>
    /\ stagnant_scrolls = 5
====
